---- MODULE Spec2Model ----
(***************************************************************************)
(* Paper-trading ledger of GoChien/poly-trader: the Polymarket limit-order *)
(* engine of poly-paper-trading-api/order_utils.py over the Account,       *)
(* Position, Order and Transaction tables.                                 *)
(*                                                                         *)
(* Money is counted in half cents (one unit = 0.005 dollar) so that a      *)
(* price below the cent, which the quote feed and a caller can supply, and *)
(* the rounding of the Numeric(20, 2) columns are both representable.  A   *)
(* value stored in a scale-2 column is an even number of units.            *)
(*                                                                         *)
(* The database runs at PostgreSQL's default READ COMMITTED level: a       *)
(* handler sees committed rows only, SELECT ... FOR UPDATE waits for the   *)
(* holder of the row lock and then reads the latest committed row, and a   *)
(* row lock is held until the holder's commit or rollback.                 *)
(***************************************************************************)
EXTENDS Integers, Sequences, FiniteSets, TLC

(* ------------------------------ bounds -------------------------------- *)
MaxPrice == 2          \* request and quote prices range over 1..MaxPrice units
MaxSize == 2           \* order sizes range over 1..MaxSize
StartCents == 2        \* balance of the account at creation, in cents
MaxOrders == 1         \* rows of the orders table
MaxTx == 2             \* rows of the transactions table

MaxKalshiOrders == 1   \* rows of the kalshi_orders table
MaxNow == 1            \* the clock runs over 0..MaxNow
MaxValues == 2         \* rows of the account_values table
MaxStrategies == 2     \* rows of the strategies table

Accounts == {"acct", "acct2"}
\* The account of the requests, where a specification names no other.
OneAccount == {"acct"}
Tokens == {"T1"}
Procs == {"p1", "p2"}
Tickers == {"K1", "K2"}
KSessions == {"k1", "k2"}
VSessions == {"v1"}
PSessions == {"s1", "s2"}
CSessions == {"c1", "c2"}
Prices == 1..MaxPrice
Sizes == 1..MaxSize
NoPrice == 0           \* a side the batched quote does not carry (None)

(* ------------------------- column conversions -------------------------- *)
\* Numeric(precision=20, scale=2): PostgreSQL rounds a non-negative numeric
\* to the column scale half away from zero; 2 units make a cent.
RoundCents(x) == ((x + 1) \div 2) * 2

\* Position.total_cost after the proportional removal of k of n shares:
\* total_cost - (total_cost / shares) * size, stored in a scale-2 column.
\* The quotient is taken exactly (Decimal carries 28 digits).  Without
\* shares the cost per share is taken as zero and nothing is removed.
RemoveCost(C, n, k) ==
    LET cents == C \div 2
    IN  IF n > 0 THEN 2 * ((2 * cents * (n - k) + n) \div (2 * n)) ELSE C

(* ------------------------------- state --------------------------------- *)
VARIABLES
    balance,        \* accounts.balance, committed
    positions,      \* positions rows, committed, keyed by (account, token)
    orders,         \* orders rows, committed; order_id = index
    transactions,   \* transactions rows, committed, in insertion order
    procs,          \* the sessions of running process_open_orders calls
    last,           \* the latest call: its request, the rows it read, its response
    kalshi_orders,  \* kalshi_orders rows, committed; order_id = index
    kalshi_positions, \* kalshi_positions rows, committed, keyed by (account, ticker)
    ksessions,      \* the sessions of running process_kalshi_orders calls
    now,            \* the clock, in units of the default order lifetime (300 s)
    account_values, \* account_values rows, committed, in insertion order
    vsessions,      \* update_account_value requests in flight
    strategies,     \* strategies rows, committed; strategy_id = index
    psessions,      \* the running process_strategies calls and their tasks
    csessions       \* create_strategy requests between their check and insert

vars == <<balance, positions, orders, transactions, procs, last,
          kalshi_orders, kalshi_positions, ksessions, now, account_values,
          vsessions, strategies, psessions, csessions>>
poly_vars == <<positions, orders, transactions, procs, last>>
kalshi_vars == <<kalshi_orders, kalshi_positions, ksessions, now>>
value_vars == <<account_values, vsessions>>
strategy_vars == <<strategies, psessions, csessions>>

PosKeys == Accounts \X Tokens
NoPosition == [exists |-> FALSE, shares |-> 0, total_cost |-> 0]

IdleProc == [pc |-> "idle", open_orders |-> <<>>, idx |-> 1,
             bid |-> [t \in Tokens |-> NoPrice],
             ask |-> [t \in Tokens |-> NoPrice],
             account |-> [a \in Accounts |-> [loaded |-> FALSE, balance |-> 0]],
             position |-> [k \in PosKeys |-> [loaded |-> FALSE, exists |-> FALSE,
                                              shares |-> 0, total_cost |-> 0]],
             filled |-> <<>>, added |-> <<>>, failed |-> FALSE]

NoCall == [op |-> "none", account_id |-> "none", token_id |-> "none",
           side |-> "none", price |-> 0, size |-> 0, market_price |-> 0,
           order_id |-> 0, status |-> "none",
           balance |-> 0, shares |-> 0, total_cost |-> 0,
           expected_balance |-> 0, expected_shares |-> [t \in Tokens |-> 0],
           is_consistent |-> FALSE,
           bid |-> [t \in Tokens |-> NoPrice], ask |-> [t \in Tokens |-> NoPrice]]

KalshiKeys == Accounts \X Tickers
NoKalshiPosition == [exists |-> FALSE, position |-> 0]
NoMarket == [present |-> FALSE, yes_bid |-> 0, yes_ask |-> 0, no_bid |-> 0, no_ask |-> 0]

IdleSession == [pc |-> "idle", account_id |-> "none", balance |-> 0,
                open_orders |-> <<>>, idx |-> 1,
                market |-> [t \in Tickers |-> NoMarket],
                position |-> [t \in Tickers |-> [loaded |-> FALSE, exists |-> FALSE,
                                                 position |-> 0]]]

\* An update_account_value request: where it is, and what its SELECTs
\* have returned so far.
IdleValuation == [pc |-> "idle", account_id |-> "none", balance |-> 0,
                  shares |-> [t \in Tokens |-> 0]]

\* A process_strategies call: where it is, the strategies and the market
\* data it loaded, and the task and the result of each strategy.
IdlePass == [pc |-> "idle", endpoint |-> "none", account_name |-> "none",
             strategies |-> <<>>, market |-> [t \in Tickers |-> NoMarket],
             tasks |-> <<>>]

\* A create_strategy request: where it is, and the request once its check
\* has passed.
IdleRequest == [pc |-> "idle", request |-> <<>>]

Init ==
    /\ balance = [a \in Accounts |-> 2 * StartCents]
    /\ positions = [k \in PosKeys |-> NoPosition]
    /\ orders = <<>>
    /\ transactions = <<>>
    /\ procs = [p \in Procs |-> IdleProc]
    /\ last = NoCall
    /\ kalshi_orders = <<>>
    /\ kalshi_positions = [k \in KalshiKeys |-> NoKalshiPosition]
    /\ ksessions = [k \in KSessions |-> IdleSession]
    /\ now = 0
    /\ account_values = <<>>
    /\ vsessions = [v \in VSessions |-> IdleValuation]
    /\ strategies = <<>>
    /\ psessions = [p \in PSessions |-> IdlePass]
    /\ csessions = [c \in CSessions |-> IdleRequest]

(* --------------------------- row locks --------------------------------- *)
\* A process_open_orders session holds the FOR UPDATE lock of every Account
\* and Position row it has selected, until it commits or rolls back.
AccountLocked(a) == \E p \in Procs : procs[p].account[a].loaded
PositionLocked(k) == \E p \in Procs : procs[p].position[k].loaded /\ procs[p].position[k].exists
OrderLocked(o) == \E p \in Procs : \E i \in 1..Len(procs[p].filled) : procs[p].filled[i] = o


(* ------------------------- place_limit_order --------------------------- *)
\* A request: account, token, side, limit price and size, and the quote that
\* get_market_price returned before the account row was locked (the ask for
\* a BUY, the bid for a SELL).
Call(op, a, t, side, price, size, mp, oid, status) ==
    [op |-> op, account_id |-> a, token_id |-> t, side |-> side,
     price |-> price, size |-> size, market_price |-> mp,
     order_id |-> oid, status |-> status,
     balance |-> IF a \in Accounts THEN balance[a] ELSE 0,
     shares |-> IF a \in Accounts /\ t \in Tokens THEN positions[<<a, t>>].shares ELSE 0,
     total_cost |-> IF a \in Accounts /\ t \in Tokens
                    THEN positions[<<a, t>>].total_cost ELSE 0,
     expected_balance |-> 0, expected_shares |-> [tk \in Tokens |-> 0],
     is_consistent |-> FALSE,
     bid |-> [tk \in Tokens |-> NoPrice], ask |-> [tk \in Tokens |-> NoPrice]]

NewOrder(a, t, side, price, size) ==
    [account_id |-> a, token_id |-> t, side |-> side,
     price |-> RoundCents(price), size |-> size, status |-> "OPEN"]

NewTransaction(a, t, side, price, size) ==
    [account_id |-> a, token_id |-> t, side |-> side,
     execution_price |-> price, size |-> size]

\* A weaker check, of the price of one share only.
BuyRejectedPerShare(b, price, size) == b < price

BuyRejected(b, price, size) == b < price * size

\* A stricter rule, crossing only above the quote.
BuyCrossesAbove(price, market_price) == price > market_price

BuyCrosses(price, market_price) == price >= market_price

HandleBuyOrder(a, t, price, size, market_price, rows) ==
    LET k == <<a, t>>
        order_cost == price * size
        execution_cost == market_price * size
        position == positions[k]
    IN
    /\ ~AccountLocked(a)
    /\ IF BuyRejected(balance[a], price, size)
       THEN /\ last' = Call("place", a, t, "BUY", price, size, market_price, 0, "rejected")
            /\ UNCHANGED <<balance, positions, orders, transactions>>
       ELSE IF BuyCrosses(price, market_price)
       THEN /\ ~PositionLocked(k)
            /\ Len(transactions) < MaxTx
            /\ balance' = [balance EXCEPT ![a] = RoundCents(@ - execution_cost)]
            /\ positions' = [positions EXCEPT ![k] =
                   [exists |-> TRUE, shares |-> position.shares + size,
                    total_cost |-> RoundCents(position.total_cost + execution_cost)]]
            /\ transactions' = Append(transactions,
                   NewTransaction(a, t, "BUY", market_price, size))
            /\ last' = Call("place", a, t, "BUY", price, size, market_price, 0, "filled")
            /\ UNCHANGED orders
       ELSE /\ Len(orders) < rows
            /\ balance' = [balance EXCEPT ![a] = RoundCents(@ - order_cost)]
            /\ orders' = Append(orders, NewOrder(a, t, "BUY", price, size))
            /\ last' = Call("place", a, t, "BUY", price, size, market_price,
                            Len(orders) + 1, "open")
            /\ UNCHANGED <<positions, transactions>>
    /\ UNCHANGED procs

\* A weaker check, of the existence of the position only.
SellRejectedNoPosition(position, size) == ~position.exists

SellRejected(position, size) == ~position.exists \/ position.shares < size

SellCrosses(price, market_price) == price <= market_price

HandleSellOrder(a, t, price, size, market_price, rows) ==
    LET k == <<a, t>>
        execution_proceeds == market_price * size
        position == positions[k]
    IN
    /\ ~AccountLocked(a)
    /\ ~PositionLocked(k)
    /\ IF SellRejected(position, size)
       THEN /\ last' = Call("place", a, t, "SELL", price, size, market_price, 0, "rejected")
            /\ UNCHANGED <<balance, positions, orders, transactions>>
       ELSE IF SellCrosses(price, market_price)
       THEN /\ Len(transactions) < MaxTx
            /\ balance' = [balance EXCEPT ![a] = RoundCents(@ + execution_proceeds)]
            /\ positions' = [positions EXCEPT ![k] =
                   [exists |-> TRUE, shares |-> position.shares - size,
                    total_cost |-> RemoveCost(position.total_cost, position.shares, size)]]
            /\ transactions' = Append(transactions,
                   NewTransaction(a, t, "SELL", market_price, size))
            /\ last' = Call("place", a, t, "SELL", price, size, market_price, 0, "filled")
            /\ UNCHANGED orders
       ELSE /\ Len(orders) < rows
            /\ positions' = [positions EXCEPT ![k].shares = @ - size]
            /\ orders' = Append(orders, NewOrder(a, t, "SELL", price, size))
            /\ last' = Call("place", a, t, "SELL", price, size, market_price,
                            Len(orders) + 1, "open")
            /\ UNCHANGED <<balance, transactions>>
    /\ UNCHANGED procs

\* A request with its price, size and the quote fetched for it drawn from
\* the given sets, on an orders table of at most the given number of rows.
PlaceLimitOrderOf(accounts, prices, sizes, quotes, rows) ==
    /\ \E a \in accounts, t \in Tokens, price \in prices, size \in sizes,
          market_price \in quotes :
           \/ HandleBuyOrder(a, t, price, size, market_price, rows)
           \/ HandleSellOrder(a, t, price, size, market_price, rows)
    /\ UNCHANGED <<kalshi_vars, value_vars, strategy_vars>>

PlaceLimitOrderFrom(prices, sizes, quotes, rows) ==
    PlaceLimitOrderOf(OneAccount, prices, sizes, quotes, rows)

PlaceLimitOrder == PlaceLimitOrderFrom(Prices, Sizes, Prices, MaxOrders)

(* ----------------------------- cancel_order ---------------------------- *)
\* A weaker check that refuses only a FILLED order.
CancelRejectedFilledOnly(order) == order.status = "FILLED"

\* The order, read FOR UPDATE, cannot be cancelled: the 400.
CancelRejected(order) == order.status # "OPEN"

CancelOrder ==
    /\ UNCHANGED <<kalshi_vars, value_vars, strategy_vars>>
    /\ \E o \in 1..Len(orders) :
        LET order == orders[o]
            a == order.account_id
            k == <<order.account_id, order.token_id>>
        IN
        /\ ~OrderLocked(o)
        /\ IF CancelRejected(order)
           THEN /\ last' = Call("cancel", a, order.token_id, order.side, order.price,
                                order.size, 0, o, "rejected")
                /\ UNCHANGED <<balance, positions, orders, transactions>>
           ELSE /\ IF order.side = "BUY"
                   THEN /\ ~AccountLocked(a)
                        /\ balance' = [balance EXCEPT ![a] = @ + order.price * order.size]
                        /\ UNCHANGED positions
                   ELSE /\ ~PositionLocked(k)
                        /\ positions' = [positions EXCEPT ![k].shares =
                               IF positions[k].exists THEN @ + order.size ELSE @]
                        /\ UNCHANGED balance
                /\ orders' = [orders EXCEPT ![o].status = "CANCELLED"]
                /\ last' = Call("cancel", a, order.token_id, order.side, order.price,
                                order.size, 0, o, "cancelled")
                /\ UNCHANGED transactions
        /\ UNCHANGED procs

(* -------------------------- process_open_orders ------------------------ *)
\* select(Order).where(status == OPEN) carries no ORDER BY: the rows come in
\* any order.
OpenOrderIds == {o \in 1..Len(orders) : orders[o].status = "OPEN"}

Orderings(S) ==
    {q \in [1..Cardinality(S) -> S] : \A i, j \in 1..Cardinality(S) : i # j => q[i] # q[j]}

\* No OPEN order: the handler returns at once with zero counts.
ProcessNothing(p) ==
    /\ procs[p].pc = "idle"
    /\ OpenOrderIds = {}
    /\ last' = Call("process", "none", "none", "none", 0, 0, 0, 0, "done")
    /\ UNCHANGED <<balance, positions, orders, transactions, procs>>

\* The unlocked load of the OPEN orders and the one batched quote request.
\* The reply may lack one side of a token, or the token (then neither side
\* is there).  The bids and asks of the reply are drawn from the given
\* sets.
ProcessLoadAt(p, bids, asks) ==
    /\ procs[p].pc = "idle"
    /\ OpenOrderIds # {}
    /\ \E q \in Orderings(OpenOrderIds),
          bid \in [Tokens -> bids],
          ask \in [Tokens -> asks] :
            procs' = [procs EXCEPT ![p] =
                   [IdleProc EXCEPT !.pc = "loop", !.open_orders = q,
                                    !.bid = bid, !.ask = ask]]
    /\ last' = Call("process", "none", "none", "none", 0, 0, 0, 0, "running")
    /\ UNCHANGED <<balance, positions, orders, transactions>>

ProcessLoad(p) == ProcessLoadAt(p, Prices \cup {NoPrice}, Prices \cup {NoPrice})

\* A stricter rule that needs the quote to be better than the limit price.
ShouldFillStrictly(order, bid, ask) ==
    /\ IF order.side = "BUY"
       THEN ask[order.token_id] # NoPrice /\ ask[order.token_id] < order.price
       ELSE bid[order.token_id] # NoPrice /\ bid[order.token_id] > order.price

\* should_fill of the loop body, on the order as the session loaded it.
ShouldFill(order, bid, ask) ==
    /\ IF order.side = "BUY"
       THEN ask[order.token_id] # NoPrice /\ ask[order.token_id] <= order.price
       ELSE bid[order.token_id] # NoPrice /\ bid[order.token_id] >= order.price

\* The session's Account object: selected FOR UPDATE on first use, the
\* identity-mapped object afterwards.
SessionAccount(s, a) ==
    IF s.account[a].loaded THEN s.account[a]
    ELSE [loaded |-> TRUE, balance |-> balance[a]]

\* The session's Position object: the row selected FOR UPDATE, or the new
\* Position(shares=0, total_cost=0) that _get_or_create_position adds.
SessionPosition(s, k) ==
    IF s.position[k].loaded THEN s.position[k]
    ELSE [loaded |-> TRUE, exists |-> positions[k].exists,
          shares |-> positions[k].shares, total_cost |-> positions[k].total_cost]

\* A variant that executes at the quote of the run.
FillOrderAtQuote(s, o) ==
    LET order == orders[o]
        a == order.account_id
        k == <<order.account_id, order.token_id>>
        account == SessionAccount(s, a)
        position == SessionPosition(s, k)
        execution_price == IF order.side = "BUY" THEN s.ask[order.token_id]
                           ELSE s.bid[order.token_id]
    IN
    [s EXCEPT
       !.account[a] =
           IF order.side = "BUY" THEN account
           ELSE [account EXCEPT !.balance = @ + execution_price * order.size],
       !.position[k] =
           IF order.side = "BUY"
           THEN [loaded |-> TRUE, exists |-> TRUE,
                 shares |-> position.shares + order.size,
                 total_cost |-> position.total_cost + execution_price * order.size]
           ELSE position,
       !.added = Append(@, NewTransaction(a, order.token_id, order.side,
                                          execution_price, order.size)),
       !.filled = Append(@, o)]

\* _fill_order_at_limit_price on the session s for the loaded order o.
FillOrderAtLimitPrice(s, o) ==
    LET order == orders[o]
        a == order.account_id
        k == <<order.account_id, order.token_id>>
        account == SessionAccount(s, a)
        position == SessionPosition(s, k)
        execution_price == order.price
    IN
    [s EXCEPT
       !.account[a] =
           IF order.side = "BUY" THEN account
           ELSE [account EXCEPT !.balance = @ + execution_price * order.size],
       !.position[k] =
           IF order.side = "BUY"
           THEN [loaded |-> TRUE, exists |-> TRUE,
                 shares |-> position.shares + order.size,
                 total_cost |-> position.total_cost + execution_price * order.size]
           ELSE position,
       !.added = Append(@, NewTransaction(a, order.token_id, order.side,
                                          execution_price, order.size)),
       !.filled = Append(@, o)]

\* A variant that ends the loop at the first order without a quote.
ProcessStepStopping(p) ==
    LET s == procs[p]
        o == s.open_orders[s.idx]
        order == orders[o]
        a == order.account_id
        k == <<order.account_id, order.token_id>>
        unquoted == IF order.side = "BUY" THEN s.ask[order.token_id] = NoPrice
                    ELSE s.bid[order.token_id] = NoPrice
    IN
    /\ s.pc = "loop"
    /\ s.idx <= Len(s.open_orders)
    /\ IF unquoted
       THEN procs' = [procs EXCEPT ![p].idx = Len(s.open_orders) + 1]
       ELSE IF ShouldFill(order, s.bid, s.ask)
       THEN /\ Len(transactions) + Len(s.added) < MaxTx
            /\ \A q \in Procs \ {p} : ~procs[q].account[a].loaded
            /\ \A q \in Procs \ {p} :
                   ~(procs[q].position[k].loaded /\ procs[q].position[k].exists)
            /\ procs' = [procs EXCEPT ![p] =
                   [FillOrderAtLimitPrice(s, o) EXCEPT !.idx = @ + 1]]
       ELSE procs' = [procs EXCEPT ![p].idx = @ + 1]
    /\ UNCHANGED <<balance, positions, orders, transactions, last>>

\* One iteration of the loop over the loaded orders.
ProcessStep(p) ==
    LET s == procs[p]
        o == s.open_orders[s.idx]
        order == orders[o]
        a == order.account_id
        k == <<order.account_id, order.token_id>>
    IN
    /\ s.pc = "loop"
    /\ ~s.failed
    /\ s.idx <= Len(s.open_orders)
    /\ IF ShouldFill(order, s.bid, s.ask)
       THEN /\ Len(transactions) + Len(s.added) < MaxTx
            /\ \A q \in Procs \ {p} : ~procs[q].account[a].loaded
            /\ \A q \in Procs \ {p} :
                   ~(procs[q].position[k].loaded /\ procs[q].position[k].exists)
            /\ procs' = [procs EXCEPT ![p] =
                   [FillOrderAtLimitPrice(s, o) EXCEPT !.idx = @ + 1]]
       ELSE procs' = [procs EXCEPT ![p].idx = @ + 1]
    /\ UNCHANGED <<balance, positions, orders, transactions, last>>

\* db.commit() after the loop: the session's changed rows become visible
\* and its row locks are released.
SetFilled(os, filled) ==
    [o \in 1..Len(os) |->
        IF \E i \in 1..Len(filled) : filled[i] = o
        THEN [os[o] EXCEPT !.status = "FILLED"] ELSE os[o]]

ProcessCommit(p) ==
    LET s == procs[p] IN
    /\ s.pc = "loop"
    /\ ~s.failed
    /\ s.idx > Len(s.open_orders)
    /\ balance' = [a \in Accounts |->
           IF s.account[a].loaded THEN RoundCents(s.account[a].balance) ELSE balance[a]]
    /\ positions' = [k \in PosKeys |->
           IF s.position[k].loaded /\ s.position[k].exists
           THEN [exists |-> TRUE, shares |-> s.position[k].shares,
                 total_cost |-> RoundCents(s.position[k].total_cost)]
           ELSE positions[k]]
    /\ orders' = SetFilled(orders, s.filled)
    /\ transactions' = transactions \o s.added
    /\ procs' = [procs EXCEPT ![p] = IdleProc]
    /\ last' = Call("process", "none", "none", "none", 0, Len(s.filled), 0, 0, "done")

\* An exception outside the per-order try (the quote request fails, the
\* database aborts the transaction): db.rollback() and a 500.
ProcessRollback(p) ==
    /\ procs[p].pc = "loop"
    /\ procs' = [procs EXCEPT ![p] = IdleProc]
    /\ last' = Call("process", "none", "none", "none", 0, 0, 0, 0, "error")
    /\ UNCHANGED <<balance, positions, orders, transactions>>

\* A statement of _fill_order_at_limit_price fails in the database after the
\* session's Account object was credited (the SELL branch selects the
\* Position FOR UPDATE after account.balance += proceeds; the BUY branch has
\* no statement between its change and the Transaction).  The exception
\* ends in the per-order except, which records the order as skipped and
\* rolls nothing back: the credited Account object stays in the session,
\* and PostgreSQL has put the transaction into the aborted state.
ProcessStepFails(p) ==
    LET s == procs[p]
        o == s.open_orders[s.idx]
        order == orders[o]
        a == order.account_id
        account == SessionAccount(s, a)
    IN
    /\ s.pc = "loop"
    /\ ~s.failed
    /\ s.idx <= Len(s.open_orders)
    /\ order.side = "SELL"
    /\ ShouldFill(order, s.bid, s.ask)
    /\ \A q \in Procs \ {p} : ~procs[q].account[a].loaded
    /\ procs' = [procs EXCEPT ![p] =
           [s EXCEPT !.account[a] =
                        [account EXCEPT !.balance = @ + order.price * order.size],
                     !.failed = TRUE,
                     !.idx = @ + 1]]
    /\ UNCHANGED <<balance, positions, orders, transactions, last>>

\* An iteration in the aborted transaction: its first statement is refused
\* (current transaction is aborted), the per-order except skips the order.
ProcessStepAborted(p) ==
    LET s == procs[p] IN
    /\ s.pc = "loop"
    /\ s.failed
    /\ s.idx <= Len(s.open_orders)
    /\ procs' = [procs EXCEPT ![p].idx = @ + 1]
    /\ UNCHANGED <<balance, positions, orders, transactions, last>>

\* A variant in which the commit after a failed iteration writes what the
\* session holds.
ProcessCommitSwallowed(p) ==
    LET s == procs[p] IN
    /\ s.pc = "loop"
    /\ s.failed
    /\ s.idx > Len(s.open_orders)
    /\ balance' = [a \in Accounts |->
           IF s.account[a].loaded THEN RoundCents(s.account[a].balance) ELSE balance[a]]
    /\ positions' = [k \in PosKeys |->
           IF s.position[k].loaded /\ s.position[k].exists
           THEN [exists |-> TRUE, shares |-> s.position[k].shares,
                 total_cost |-> RoundCents(s.position[k].total_cost)]
           ELSE positions[k]]
    /\ orders' = SetFilled(orders, s.filled)
    /\ transactions' = transactions \o s.added
    /\ procs' = [procs EXCEPT ![p] = IdleProc]
    /\ last' = Call("process", "none", "none", "none", 0, Len(s.filled), 0, 0, "done")

\* db.commit() of a transaction the database has aborted: the COMMIT ends
\* it as a rollback, so none of the run's changes is written, while the
\* response still carries the counts of the loop.  (When the commit raises
\* instead, the run ends in ProcessRollback.)
ProcessCommitAborted(p) ==
    LET s == procs[p] IN
    /\ s.pc = "loop"
    /\ s.failed
    /\ s.idx > Len(s.open_orders)
    /\ procs' = [procs EXCEPT ![p] = IdleProc]
    /\ last' = Call("process", "none", "none", "none", 0, Len(s.filled), 0, 0, "done")
    /\ UNCHANGED <<balance, positions, orders, transactions>>

\* The steps of a run in which a fill fails part-way.
ProcessOpenOrdersFailing(sessions) ==
    /\ \E p \in sessions :
           \/ ProcessStepFails(p)
           \/ ProcessStepAborted(p)
           \/ ProcessCommitAborted(p)
    /\ UNCHANGED <<kalshi_vars, value_vars, strategy_vars>>

\* The runs of process_open_orders of the given sessions, with the quotes
\* drawn from the given sets.
ProcessOpenOrdersAt(sessions, bids, asks) ==
    /\ \E p \in sessions :
           \/ ProcessNothing(p)
           \/ ProcessLoadAt(p, bids, asks)
           \/ ProcessStep(p)
           \/ ProcessCommit(p)
           \/ ProcessRollback(p)
    /\ UNCHANGED <<kalshi_vars, value_vars, strategy_vars>>

\* The runs of process_open_orders of the given sessions.
ProcessOpenOrdersBy(sessions) ==
    ProcessOpenOrdersAt(sessions, Prices \cup {NoPrice}, Prices \cup {NoPrice})

\* One run at a time.
ProcessOpenOrders == ProcessOpenOrdersBy({"p1"})

\* The Polymarket order engine.
Next ==
    \/ PlaceLimitOrder
    \/ CancelOrder
    \/ ProcessOpenOrders

Spec == Init /\ [][Next]_vars

(* --------------------------- create_kalshi_order ----------------------- *)
\* Kalshi prices are whole cents; a cent is 2 units of money.
KalshiCost(price_cents, count) == 2 * price_cents * count

\* The placeholder price of a market order, in cents.
MarketPlaceholder == 50

\* The request is refused with a 400: count below 1, a limit order without
\* a price (None is NoPrice) or with one outside 1..99, or a limit BUY that
\* the balance read without a lock does not cover.  Nothing is reserved.
KalshiRejected(a, action, count, type, price_cents) ==
    \/ count < 1
    \/ type = "limit" /\ (price_cents = NoPrice \/ price_cents < 1 \/ price_cents > 99)
    \/ action = "buy" /\ type = "limit" /\ balance[a] < KalshiCost(price_cents, count)

\* A request with its action, type, ticker, side, count and expiration
\* drawn from the given sets, on a kalshi_orders table of at most the given
\* number of rows.
CreateKalshiOrderOf(actions, types, tickers, sides, counts, expirations, rows) ==
    /\ \E a \in OneAccount, ticker \in tickers, side \in sides,
          action \in actions, count \in counts,
          type \in types, price_cents \in {NoPrice} \cup Prices,
          expiration_ts \in expirations :
           IF KalshiRejected(a, action, count, type, price_cents)
           THEN UNCHANGED kalshi_orders
           ELSE /\ Len(kalshi_orders) < rows
                /\ kalshi_orders' = Append(kalshi_orders,
                       [account_id |-> a, ticker |-> ticker, side |-> side,
                        action |-> action, count |-> count, type |-> type,
                        status |-> "open",
                        price |-> IF type = "market" THEN MarketPlaceholder
                                  ELSE price_cents,
                        \* expiration_ts None (0 here): 300 s from now
                        expiration_ts |-> IF expiration_ts = 0 THEN now + 1
                                          ELSE expiration_ts])
    /\ UNCHANGED <<balance, kalshi_positions, ksessions, now>>
    /\ UNCHANGED <<poly_vars, value_vars, strategy_vars>>

\* A request with its ticker, side, count and expiration drawn from the
\* given sets.
CreateKalshiOrderFrom(tickers, sides, counts, expirations) ==
    CreateKalshiOrderOf({"buy", "sell"}, {"limit", "market"},
                        tickers, sides, counts, expirations, MaxKalshiOrders)

CreateKalshiOrder ==
    CreateKalshiOrderFrom(Tickers, {"yes", "no"}, 0..MaxSize, 0..(MaxNow + 1))

(* -------------------------- process_kalshi_orders ---------------------- *)
LiveOrderIds(a) ==
    {o \in 1..Len(kalshi_orders) :
        /\ kalshi_orders[o].account_id = a
        /\ kalshi_orders[o].status = "open"
        /\ kalshi_orders[o].expiration_ts > now}

\* The account and its non-expired open orders are read without a lock,
\* then the market data is fetched; a ticker may be missing from it.  With
\* no such order the handler returns at once.  The market data is asked
\* for the tickers of the loaded orders only; the quotes of the no side are
\* drawn from no_quotes, those of the yes side from bids and asks.
KalshiLoadAt(k, bids, asks, no_quotes) ==
    /\ ksessions[k].pc = "idle"
    /\ \E a \in OneAccount :
         IF LiveOrderIds(a) = {}
         THEN UNCHANGED ksessions
         ELSE LET unique_tickers == {kalshi_orders[o].ticker : o \in LiveOrderIds(a)} IN
              \E q \in Orderings(LiveOrderIds(a)),
                 market_map \in [unique_tickers -> {NoMarket} \cup
                                [present : {TRUE}, yes_bid : bids, yes_ask : asks,
                                 no_bid : no_quotes, no_ask : no_quotes]] :
                ksessions' = [ksessions EXCEPT ![k] =
                    [IdleSession EXCEPT !.pc = "loop", !.account_id = a,
                                        !.balance = balance[a],
                                        !.open_orders = q,
                                        !.market = [t \in Tickers |->
                                            IF t \in unique_tickers THEN market_map[t]
                                            ELSE NoMarket]]]
    /\ UNCHANGED <<balance, kalshi_orders, kalshi_positions, now>>
    /\ UNCHANGED <<poly_vars, value_vars, strategy_vars>>

KalshiLoad(k, no_quotes) == KalshiLoadAt(k, Prices, Prices, no_quotes)

\* The price the order fills at, or NoPrice when it cannot fill now.
FillPriceCents(order, market) ==
    LET ask == IF order.side = "yes" THEN market.yes_ask ELSE market.no_ask
        bid == IF order.side = "yes" THEN market.yes_bid ELSE market.no_bid
    IN  IF order.type = "market"
        THEN (IF order.action = "buy" THEN ask ELSE bid)
        ELSE IF order.action = "buy"
             THEN (IF ask <= order.price THEN ask ELSE NoPrice)
             ELSE (IF bid >= order.price THEN bid ELSE NoPrice)

\* The quote the loop reads for the order: the ask of its side for a BUY,
\* the bid for a SELL; NoPrice when the market data has null there or
\* lacks the key.
QuoteSide(order, market) ==
    IF order.action = "buy"
    THEN (IF order.side = "yes" THEN market.yes_ask ELSE market.no_ask)
    ELSE (IF order.side = "yes" THEN market.yes_bid ELSE market.no_bid)

\* The session's KalshiPosition object for the ticker: the row selected FOR
\* UPDATE on first use, the identity-mapped object afterwards.
SessionKalshiPosition(s, t) ==
    IF s.position[t].loaded THEN s.position[t]
    ELSE [loaded |-> TRUE, exists |-> kalshi_positions[<<s.account_id, t>>].exists,
          position |-> kalshi_positions[<<s.account_id, t>>].position]

\* A weaker check that lets every BUY through.
FillRefusedSellOnly(s, order, fill_price_cents) ==
    LET position == SessionKalshiPosition(s, order.ticker) IN
    /\ order.action = "sell"
    /\ \/ ~position.exists
       \/ order.side = "yes" /\ position.position < order.count
       \/ order.side = "no" /\ position.position > -order.count

\* _fill_kalshi_order raises OrderFillException: the balance of the
\* session's Account object does not cover a BUY, or the position does not
\* cover a SELL.
FillRefused(s, order, fill_price_cents) ==
    LET position == SessionKalshiPosition(s, order.ticker) IN
    IF order.action = "buy"
    THEN s.balance < KalshiCost(fill_price_cents, order.count)
    ELSE \/ ~position.exists
         \/ order.side = "yes" /\ position.position < order.count
         \/ order.side = "no" /\ position.position > -order.count

\* _fill_kalshi_order on the session s; it ends with its own commit.
FillKalshiOrder(k, o, fill_price_cents) ==
    LET s == ksessions[k]
        order == kalshi_orders[o]
        a == s.account_id
        t == order.ticker
        cost_or_proceeds == KalshiCost(fill_price_cents, order.count)
        position == SessionKalshiPosition(s, t)
        signed == IF order.side = "yes" THEN order.count ELSE -order.count
        new_balance == IF order.action = "buy" THEN s.balance - cost_or_proceeds
                       ELSE s.balance + cost_or_proceeds
        new_position == [loaded |-> TRUE, exists |-> TRUE,
                         position |-> IF order.action = "buy"
                                      THEN position.position + signed
                                      ELSE position.position - signed]
    IN
    /\ balance' = [balance EXCEPT ![a] = RoundCents(new_balance)]
    /\ kalshi_positions' = [kalshi_positions EXCEPT ![<<a, t>>] =
           [exists |-> TRUE, position |-> new_position.position]]
    /\ kalshi_orders' = [kalshi_orders EXCEPT ![o].status = "filled",
                                              ![o].price = fill_price_cents]
    /\ ksessions' = [ksessions EXCEPT ![k].balance = new_balance,
                                      ![k].position[t] = new_position,
                                      ![k].idx = @ + 1]

\* One iteration of the loop over the loaded orders.
KalshiStep(k) ==
    LET s == ksessions[k]
        o == s.open_orders[s.idx]
        order == kalshi_orders[o]
        market == s.market[order.ticker]
        fill_price_cents == FillPriceCents(order, market)
    IN
    /\ s.pc = "loop"
    /\ s.idx <= Len(s.open_orders)
    /\ market.present => QuoteSide(order, market) # NoPrice
    /\ IF ~market.present \/ fill_price_cents = NoPrice
       THEN /\ ksessions' = [ksessions EXCEPT ![k].idx = @ + 1]
            /\ UNCHANGED <<balance, kalshi_orders, kalshi_positions>>
       ELSE /\ ~AccountLocked(s.account_id)
            /\ IF FillRefused(s, order, fill_price_cents)
               THEN \* the order is cancelled and that alone is committed
                    /\ kalshi_orders' = [kalshi_orders EXCEPT ![o].status = "cancelled"]
                    /\ ksessions' = [ksessions EXCEPT
                           ![k].position[order.ticker] =
                               IF order.action = "sell"
                               THEN SessionKalshiPosition(s, order.ticker) ELSE @,
                           ![k].idx = @ + 1]
                    /\ UNCHANGED <<balance, kalshi_positions>>
               ELSE FillKalshiOrder(k, o, fill_price_cents)
    /\ UNCHANGED now
    /\ UNCHANGED <<poly_vars, value_vars, strategy_vars>>

\* The loop is over: the handler returns its lists.
KalshiReturn(k) ==
    /\ ksessions[k].pc = "loop"
    /\ ksessions[k].idx > Len(ksessions[k].open_orders)
    /\ ksessions' = [ksessions EXCEPT ![k] = IdleSession]
    /\ UNCHANGED <<balance, kalshi_orders, kalshi_positions, now>>
    /\ UNCHANGED <<poly_vars, value_vars, strategy_vars>>

\* An iteration whose quote is missing or null: the subscript or the
\* comparison (for a market order the Decimal of the price, in
\* _fill_kalshi_order before any change) raises, no except of the loop
\* catches it, and the handler answers 500 without reaching the orders
\* that are left.
KalshiStepRaises(k) ==
    LET s == ksessions[k]
        o == s.open_orders[s.idx]
        order == kalshi_orders[o]
        market == s.market[order.ticker]
    IN
    /\ s.pc = "loop"
    /\ s.idx <= Len(s.open_orders)
    /\ market.present
    /\ QuoteSide(order, market) = NoPrice
    /\ ksessions' = [ksessions EXCEPT ![k] = IdleSession]
    /\ UNCHANGED <<balance, kalshi_orders, kalshi_positions, now>>
    /\ UNCHANGED <<poly_vars, value_vars, strategy_vars>>

\* The runs of process_kalshi_orders of the given sessions, with the quotes
\* of the yes side drawn from bids and asks.
ProcessKalshiOrdersBy(sessions, bids, asks, no_quotes) ==
    \E k \in sessions :
        \/ KalshiLoadAt(k, bids, asks, no_quotes)
        \/ KalshiStep(k)
        \/ KalshiReturn(k)

\* One run at a time.
ProcessKalshiOrdersAt(bids, asks, no_quotes) ==
    ProcessKalshiOrdersBy({"k1"}, bids, asks, no_quotes)

ProcessKalshiOrdersFrom(no_quotes) ==
    ProcessKalshiOrdersAt(Prices, Prices, no_quotes)

\* The runs in which an order may have no quote.
ProcessKalshiOrdersFailing(sessions) ==
    \E k \in sessions : KalshiStepRaises(k)

ProcessKalshiOrders == ProcessKalshiOrdersFrom(Prices)

\* Time passes.
Tick ==
    /\ now < MaxNow
    /\ now' = now + 1
    /\ UNCHANGED <<balance, kalshi_orders, kalshi_positions, ksessions>>
    /\ UNCHANGED <<poly_vars, value_vars, strategy_vars>>

\* The Kalshi order engine.
NextKalshi ==
    \/ CreateKalshiOrder
    \/ ProcessKalshiOrders
    \/ Tick

SpecKalshi == Init /\ [][NextKalshi]_vars

\* Both engines on the same accounts, for these requests: limit orders for
\* 2 shares at $0.005 against a quote of $0.01, and Kalshi orders for one
\* contract on the yes side that do not expire.
NextLedger ==
    \/ PlaceLimitOrderFrom({1}, {2}, {2}, MaxOrders)
    \/ CancelOrder
    \/ ProcessOpenOrders
    \/ CreateKalshiOrderFrom({"K1"}, {"yes"}, {1}, {MaxNow + 1})
    \/ ProcessKalshiOrdersFrom({1})

SpecLedger == Init /\ [][NextLedger]_vars

(* ------------------------------ ledger sums ---------------------------- *)
RECURSIVE SumOver(_, _, _)
\* Sum of f[i] over the indices i in 1..n that satisfy keep[i].
SumOver(f, keep, n) ==
    IF n = 0 THEN 0
    ELSE SumOver(f, keep, n - 1) + (IF keep[n] THEN f[n] ELSE 0)

\* price * size of the account's OPEN BUY orders.
OpenBuyReserved(a) ==
    SumOver([o \in 1..Len(orders) |-> orders[o].price * orders[o].size],
            [o \in 1..Len(orders) |-> orders[o].account_id = a
                 /\ orders[o].side = "BUY" /\ orders[o].status = "OPEN"],
            Len(orders))

\* size of the account's OPEN SELL orders on the token.
OpenSellSize(k) ==
    SumOver([o \in 1..Len(orders) |-> orders[o].size],
            [o \in 1..Len(orders) |-> <<orders[o].account_id, orders[o].token_id>> = k
                 /\ orders[o].side = "SELL" /\ orders[o].status = "OPEN"],
            Len(orders))

\* execution_price * size over the account's Transactions of one side.
TxCash(a, side) ==
    SumOver([i \in 1..Len(transactions) |->
                 transactions[i].execution_price * transactions[i].size],
            [i \in 1..Len(transactions) |->
                 transactions[i].account_id = a /\ transactions[i].side = side],
            Len(transactions))

\* size over the Transactions of one side on (account, token).
TxShares(k, side) ==
    SumOver([i \in 1..Len(transactions) |-> transactions[i].size],
            [i \in 1..Len(transactions) |->
                 <<transactions[i].account_id, transactions[i].token_id>> = k
                 /\ transactions[i].side = side],
            Len(transactions))

(* ----------------------------- audit_account --------------------------- *)
\* INITIAL_BALANCE of the audit, the balance accounts are created with.
InitialBalance == 2 * StartCents

\* The replay of the account's Transactions: the expected balance.
ExpectedBalance(a) == InitialBalance - TxCash(a, "BUY") + TxCash(a, "SELL")

\* The replay of the account's Transactions: the expected shares of a token.
ExpectedShares(k) == TxShares(k, "BUY") - TxShares(k, "SELL")

\* The shares of the Position row, 0 for a token without a row.
ActualShares(k) == IF positions[k].exists THEN positions[k].shares ELSE 0

BalanceIsCorrect(a) == balance[a] = ExpectedBalance(a)

AllPositionsCorrect(a) == \A t \in Tokens : ActualShares(<<a, t>>) = ExpectedShares(<<a, t>>)

\* A variant that repairs the balance it finds wrong.
AuditAccountRepairing ==
    /\ \E a \in OneAccount :
         /\ ~AccountLocked(a)
         /\ last' = [Call("audit", a, "none", "none", 0, 0, 0, 0, "done") EXCEPT
                      !.expected_balance = ExpectedBalance(a),
                      !.expected_shares = [t \in Tokens |-> ExpectedShares(<<a, t>>)],
                      !.is_consistent = BalanceIsCorrect(a) /\ AllPositionsCorrect(a)]
         /\ balance' = [balance EXCEPT ![a] = RoundCents(ExpectedBalance(a))]
    /\ UNCHANGED <<positions, orders, transactions, procs>>
    /\ UNCHANGED <<kalshi_vars, value_vars, strategy_vars>>

\* The handler only reads: the response is all it produces.
AuditAccount ==
    /\ \E a \in OneAccount :
         last' = [Call("audit", a, "none", "none", 0, 0, 0, 0, "done") EXCEPT
                    !.expected_balance = ExpectedBalance(a),
                    !.expected_shares = [t \in Tokens |-> ExpectedShares(<<a, t>>)],
                    !.is_consistent = BalanceIsCorrect(a) /\ AllPositionsCorrect(a)]
    /\ UNCHANGED <<balance, positions, orders, transactions, procs>>
    /\ UNCHANGED <<kalshi_vars, value_vars, strategy_vars>>

\* The Polymarket order engine with its audit.
NextAudit ==
    \/ PlaceLimitOrder
    \/ CancelOrder
    \/ ProcessOpenOrders
    \/ AuditAccount

SpecAudit == Init /\ [][NextAudit]_vars

(* -------------------------- update_account_value ---------------------- *)
\* account_id values of the requests: the accounts and an unknown id.
UnknownAccount == "nobody"

\* Twice the price get_batch_market_prices_for_tokens returns for a token:
\* the midpoint of both sides, or the one side the reply has; NoPrice when
\* it has neither (the token is not in the result).
TwiceMark(bid, ask) ==
    IF bid # NoPrice /\ ask # NoPrice THEN bid + ask
    ELSE IF bid # NoPrice THEN 2 * bid
    ELSE IF ask # NoPrice THEN 2 * ask
    ELSE NoPrice

\* reserved_cash: price times size of the account's OPEN BUY orders, as the
\* SELECT of the OPEN orders returns them.
ReservedCash(a) == OpenBuyReserved(a)

\* effective_shares: the shares the SELECT of the positions returned plus
\* the sizes of the OPEN SELL orders on the token.
EffectiveShares(v, t) == vsessions[v].shares[t] + OpenSellSize(<<vsessions[v].account_id, t>>)

RECURSIVE TwicePositionValue(_, _, _, _)
\* Twice total_position_value, over the tokens of S: a token counts when it
\* has effective shares and the price reply carries it.
TwicePositionValue(v, S, bid, ask) ==
    IF S = {} THEN 0
    ELSE LET t == CHOOSE x \in S : TRUE IN
         TwicePositionValue(v, S \ {t}, bid, ask)
           + (IF EffectiveShares(v, t) > 0 /\ TwiceMark(bid[t], ask[t]) # NoPrice
              THEN EffectiveShares(v, t) * TwiceMark(bid[t], ask[t]) ELSE 0)

\* Twice the total_value the handler computes.
TwiceTotalValue(v, bid, ask) ==
    2 * (vsessions[v].balance + ReservedCash(vsessions[v].account_id))
      + TwicePositionValue(v, Tokens, bid, ask)

\* The value as the Numeric(20,2) column total_value holds it.
StoredValue(twice) == 2 * ((twice + 2) \div 4)

\* A variant that rewrites the table to hold the new snapshot alone.
AddAccountValueReplacing(row) == <<row>>

\* session.add(account_value) and the commit: one more row.
AddAccountValue(row) == Append(account_values, row)

\* The request arrives and the Account row is selected (no lock); an
\* unknown account is answered 404.
ValueAccount(v) ==
    /\ vsessions[v].pc = "idle"
    /\ \E a \in OneAccount \cup {UnknownAccount} :
           IF a \notin Accounts
           THEN /\ last' = Call("value", a, "none", "none", 0, 0, 0, 0, "rejected")
                /\ UNCHANGED vsessions
           ELSE /\ Len(account_values) < MaxValues
                /\ vsessions' = [vsessions EXCEPT ![v] =
                       [IdleValuation EXCEPT !.pc = "account", !.account_id = a,
                                             !.balance = balance[a]]]
                /\ last' = Call("value", a, "none", "none", 0, 0, 0, 0, "running")
    /\ UNCHANGED <<balance, positions, orders, transactions, procs, account_values>>
    /\ UNCHANGED <<kalshi_vars, strategy_vars>>

\* The Position rows of the account are selected.
ValuePositions(v) ==
    /\ vsessions[v].pc = "account"
    /\ vsessions' = [vsessions EXCEPT ![v].pc = "positions",
           ![v].shares = [t \in Tokens |->
               IF positions[<<vsessions[v].account_id, t>>].exists
               THEN positions[<<vsessions[v].account_id, t>>].shares ELSE 0]]
    /\ last' = Call("value", vsessions[v].account_id, "none", "none", 0, 0, 0, 0, "running")
    /\ UNCHANGED <<balance, positions, orders, transactions, procs, account_values>>
    /\ UNCHANGED <<kalshi_vars, strategy_vars>>

\* The OPEN orders are selected, the prices fetched, the value computed and
\* the AccountValue row inserted and committed.
ValueCommit(v) ==
    /\ vsessions[v].pc = "positions"
    /\ \E bid \in [Tokens -> Prices \cup {NoPrice}],
          ask \in [Tokens -> Prices \cup {NoPrice}] :
           /\ account_values' = AddAccountValue(
                  [account_id |-> vsessions[v].account_id,
                   total_value |-> StoredValue(TwiceTotalValue(v, bid, ask))])
           /\ last' = [Call("value", vsessions[v].account_id, "none", "none",
                             0, 0, 0, 0, "done")
                        EXCEPT !.bid = bid, !.ask = ask]
    /\ vsessions' = [vsessions EXCEPT ![v] = IdleValuation]
    /\ UNCHANGED <<balance, positions, orders, transactions, procs>>
    /\ UNCHANGED <<kalshi_vars, strategy_vars>>

UpdateAccountValue ==
    \E v \in VSessions : ValueAccount(v) \/ ValuePositions(v) \/ ValueCommit(v)

\* The valuation of an account while orders of one share are placed,
\* filled on placement, left resting and cancelled.
NextValue ==
    \/ PlaceLimitOrderFrom(Prices, {1}, Prices, MaxOrders)
    \/ CancelOrder
    \/ UpdateAccountValue

SpecValue == Init /\ [][NextValue]_vars

(* ------------------------------- batches ------------------------------ *)
\* Runs of process_open_orders over several OPEN orders: one more row in the
\* orders table, for requests of one share.
NextBatch ==
    \/ PlaceLimitOrderFrom(Prices, {1}, Prices, MaxOrders + 1)
    \/ CancelOrder
    \/ ProcessOpenOrders

SpecBatch == Init /\ [][NextBatch]_vars

\* Two runs of process_open_orders at a time, over the orders of one
\* share at the lowest price.
NextRuns ==
    \/ PlaceLimitOrderFrom({1}, {1}, Prices, MaxOrders)
    \/ CancelOrder
    \/ ProcessOpenOrdersBy(Procs)

SpecRuns == Init /\ [][NextRuns]_vars

(* ------------------------------ strategies ---------------------------- *)
\* None, for the optional fields of a request or a row: a text, a number
\* (prices and probabilities are in cents), a time.
NoText == "None"
NoNumber == -1
NoTime == -1

\* A strategy is active when valid_until_utc is null or later than now.
Active(strategy, current) ==
    strategy.valid_until_utc = NoTime \/ strategy.valid_until_utc > current

\* The ids of the account's active strategies on the ticker.
ActiveStrategyIds(account_name, ticker) ==
    {i \in 1..Len(strategies) :
        /\ strategies[i].account_name = account_name
        /\ strategies[i].ticker = ticker
        /\ Active(strategies[i], now)}

\* The latest strategy call: its request and its response.
StrategyCall(op, strategy_id, status, request) ==
    [op |-> op, strategy_id |-> strategy_id, status |-> status,
     request |-> request, now |-> now]

\* create_strategy: 404 for an unknown account, 409 when the account has
\* an active strategy on the ticker, else the row is inserted.
CreateStrategyFrom(requests) ==
    /\ \E request \in requests :
          IF \/ request.account_name \notin Accounts
             \/ ActiveStrategyIds(request.account_name, request.ticker) # {}
          THEN /\ last' = StrategyCall("create_strategy", 0, "rejected", request)
               /\ UNCHANGED strategies
          ELSE /\ Len(strategies) < MaxStrategies
               /\ strategies' = Append(strategies, request)
               /\ last' = StrategyCall("create_strategy", Len(strategies) + 1,
                                       "done", request)
    /\ UNCHANGED <<balance, positions, orders, transactions, procs, psessions, csessions>>
    /\ UNCHANGED <<kalshi_vars, value_vars>>

\* create_strategy up to its check: the account and the active strategies
\* on the ticker are selected without a lock; a request that passes goes on
\* to its insert.
CreateStrategyCheck(c, requests) ==
    /\ csessions[c].pc = "idle"
    /\ \E request \in requests :
          IF \/ request.account_name \notin Accounts
             \/ ActiveStrategyIds(request.account_name, request.ticker) # {}
          THEN /\ last' = StrategyCall("create_strategy", 0, "rejected", request)
               /\ UNCHANGED csessions
          ELSE /\ csessions' = [csessions EXCEPT ![c] =
                      [pc |-> "checked", request |-> <<request>>]]
               /\ UNCHANGED last
    /\ UNCHANGED <<balance, positions, orders, transactions, procs, psessions, strategies>>
    /\ UNCHANGED <<kalshi_vars, value_vars>>

\* The insert of the request that passed its check, and the commit.
CreateStrategyInsert(c) ==
    LET request == csessions[c].request[1] IN
    /\ csessions[c].pc = "checked"
    /\ Len(strategies) < MaxStrategies
    /\ strategies' = Append(strategies, request)
    /\ last' = StrategyCall("create_strategy", Len(strategies) + 1, "done", request)
    /\ csessions' = [csessions EXCEPT ![c] = IdleRequest]
    /\ UNCHANGED <<balance, positions, orders, transactions, procs, psessions>>
    /\ UNCHANGED <<kalshi_vars, value_vars>>

\* The create_strategy requests of the given sessions, step by step.
CreateStrategyBy(sessions, requests) ==
    \E c \in sessions :
        \/ CreateStrategyCheck(c, requests)
        \/ CreateStrategyInsert(c)

\* A variant that tests for a time before now only.
AlreadyExpiredBefore(strategy, current) ==
    strategy.valid_until_utc # NoTime /\ strategy.valid_until_utc < current

\* The strategy is already expired: valid_until_utc is set and not later
\* than now.
AlreadyExpired(strategy, current) ==
    strategy.valid_until_utc # NoTime /\ strategy.valid_until_utc <= current

\* A variant that takes the field of the request whether it is set or not.
OrOldIgnored(value, none, old) == value

\* The field of the request when it is set, else that of the old row.
OrOld(value, none, old) == IF value # none THEN value ELSE old

\* The new version of old_strategy that the request asks for.
NewStrategy(request, old_strategy) ==
    [account_name |-> old_strategy.account_name,
     ticker |-> old_strategy.ticker,
     side |-> old_strategy.side,
     thesis |-> OrOld(request.thesis, NoText, old_strategy.thesis),
     thesis_probability |->
         OrOld(request.thesis_probability, NoNumber, old_strategy.thesis_probability),
     entry_max_price |->
         OrOld(request.entry_max_price, NoNumber, old_strategy.entry_max_price),
     entry_min_implied_edge |-> old_strategy.entry_min_implied_edge,
     entry_max_capital_risk |-> old_strategy.entry_max_capital_risk,
     entry_max_position_shares |-> old_strategy.entry_max_position_shares,
     exit_take_profit_price |->
         OrOld(request.exit_take_profit_price, NoNumber,
               old_strategy.exit_take_profit_price),
     exit_stop_loss_price |->
         OrOld(request.exit_stop_loss_price, NoNumber, old_strategy.exit_stop_loss_price),
     exit_time_stop_utc |->
         OrOld(request.exit_time_stop_utc, NoTime, old_strategy.exit_time_stop_utc),
     \* the new strategy starts without expiration unless specified
     valid_until_utc |-> OrOld(request.valid_until_utc, NoTime, NoTime),
     notes |-> OrOld(request.notes, NoText, old_strategy.notes)]

\* A variant that inserts the new version and leaves the old one active.
ExpireAndInsertKeepingOld(strategy_id, new_strategy) ==
    Append(strategies, new_strategy)

\* The commit of update_strategy: the old row expired and the new row, in
\* one transaction.
ExpireAndInsert(strategy_id, new_strategy) ==
    Append([strategies EXCEPT ![strategy_id].valid_until_utc = now], new_strategy)

\* A variant that writes the new version over the old row.
UpdateStrategyInPlace(requests) ==
    /\ \E request \in requests :
          IF request.strategy_id \notin 1..Len(strategies)
          THEN /\ last' = StrategyCall("update_strategy", request.strategy_id,
                                       "not found", request)
               /\ UNCHANGED strategies
          ELSE IF AlreadyExpired(strategies[request.strategy_id], now)
          THEN /\ last' = StrategyCall("update_strategy", request.strategy_id,
                                       "rejected", request)
               /\ UNCHANGED strategies
          ELSE /\ strategies' = [strategies EXCEPT ![request.strategy_id] =
                      NewStrategy(request, strategies[request.strategy_id])]
               /\ last' = StrategyCall("update_strategy", request.strategy_id,
                                       "done", request)
    /\ UNCHANGED <<balance, positions, orders, transactions, procs, psessions, csessions>>
    /\ UNCHANGED <<kalshi_vars, value_vars>>

\* update_strategy: 404 for an unknown id, 400 for an expired strategy,
\* else the old row is expired and its new version inserted.
UpdateStrategyFrom(requests) ==
    /\ \E request \in requests :
          IF request.strategy_id \notin 1..Len(strategies)
          THEN /\ last' = StrategyCall("update_strategy", request.strategy_id,
                                       "not found", request)
               /\ UNCHANGED strategies
          ELSE IF AlreadyExpired(strategies[request.strategy_id], now)
          THEN /\ last' = StrategyCall("update_strategy", request.strategy_id,
                                       "rejected", request)
               /\ UNCHANGED strategies
          ELSE /\ Len(strategies) < MaxStrategies
               /\ strategies' = ExpireAndInsert(request.strategy_id,
                      NewStrategy(request, strategies[request.strategy_id]))
               /\ last' = StrategyCall("update_strategy", request.strategy_id,
                                       "done", request)
    /\ UNCHANGED <<balance, positions, orders, transactions, procs, psessions, csessions>>
    /\ UNCHANGED <<kalshi_vars, value_vars>>

\* The row create_kalshi_order inserts; without an expiration_ts the order
\* lives for 300 s.
NewKalshiOrder(a, ticker, side, action, count, type, price_cents) ==
    [account_id |-> a, ticker |-> ticker, side |-> side,
     action |-> action, count |-> count, type |-> type,
     status |-> "open",
     price |-> IF type = "market" THEN MarketPlaceholder ELSE price_cents,
     expiration_ts |-> now + 1]

\* remove_strategy: 404 for an unknown id, 400 for an expired strategy,
\* else the strategy is expired and that committed; then a market SELL is
\* placed for the whole position on the ticker, if there is one.
RemoveStrategy ==
    /\ \E strategy_id \in 1..(Len(strategies) + 1) :
          IF strategy_id \notin 1..Len(strategies)
          THEN /\ last' = StrategyCall("remove_strategy", strategy_id, "not found", <<>>)
               /\ UNCHANGED <<strategies, kalshi_orders>>
          ELSE IF AlreadyExpired(strategies[strategy_id], now)
          THEN /\ last' = StrategyCall("remove_strategy", strategy_id, "rejected", <<>>)
               /\ UNCHANGED <<strategies, kalshi_orders>>
          ELSE LET strategy == strategies[strategy_id]
                   position == kalshi_positions[<<strategy.account_name, strategy.ticker>>]
               IN
               /\ strategies' = [strategies EXCEPT ![strategy_id].valid_until_utc = now]
               /\ last' = StrategyCall("remove_strategy", strategy_id, "done", <<>>)
               /\ IF position.exists /\ position.position # 0
                  THEN /\ Len(kalshi_orders) < MaxKalshiOrders
                       /\ kalshi_orders' = Append(kalshi_orders,
                              NewKalshiOrder(strategy.account_name, strategy.ticker,
                                  IF position.position > 0 THEN "yes" ELSE "no",
                                  "sell",
                                  IF position.position > 0 THEN position.position
                                  ELSE -position.position,
                                  "market", NoPrice))
                  ELSE UNCHANGED kalshi_orders
    /\ UNCHANGED <<balance, positions, orders, transactions, procs, psessions, csessions>>
    /\ UNCHANGED <<kalshi_positions, ksessions, now, value_vars>>

\* remove_strategy when create_kalshi_order raises (its commit fails in the
\* database): the expiry was committed before the order was tried, the
\* rollback of the except finds nothing to undo, and the request is
\* answered 500.
RemoveStrategyFailing ==
    /\ \E strategy_id \in 1..Len(strategies) :
          LET strategy == strategies[strategy_id]
              position == kalshi_positions[<<strategy.account_name, strategy.ticker>>]
          IN
          /\ ~AlreadyExpired(strategy, now)
          /\ position.exists /\ position.position # 0
          /\ strategies' = [strategies EXCEPT ![strategy_id].valid_until_utc = now]
          /\ last' = StrategyCall("remove_strategy", strategy_id, "error", <<>>)
    /\ UNCHANGED <<balance, positions, orders, transactions, procs, psessions, csessions>>
    /\ UNCHANGED <<kalshi_vars, value_vars>>

(* --------------------------- process_strategies ------------------------ *)
\* The task of one strategy of a pass: where it is, the order it is about
\* to place, and its ProcessStrategyResult (its action; "error" for an
\* exception).
NoIntent == [action |-> "none", type |-> "none", count |-> 0, price_cents |-> NoPrice]
NewTask == [pc |-> "evaluate", intent |-> NoIntent, result |-> "none"]

RECURSIVE Descending(_)
\* The ids of S, latest first.
Descending(S) ==
    IF S = {} THEN <<>>
    ELSE LET m == CHOOSE x \in S : \A y \in S : y <= x
         IN  <<m>> \o Descending(S \ {m})

\* The account's active strategies, ordered by created_at, latest first.
ActiveStrategies(account_name) ==
    Descending({i \in 1..Len(strategies) :
                   /\ strategies[i].account_name = account_name
                   /\ Active(strategies[i], now)})

\* The response of a pass.
PassResponse(endpoint, account_name, total_strategies, results) ==
    [op |-> endpoint, status |-> "done", account_name |-> account_name,
     total_strategies |-> total_strategies, results |-> results]

\* The pass begins: the account and its active strategies are selected and
\* the market data of their tickers fetched, once for the pass; a ticker
\* may be missing from it and a side of a quote may be None.  With no
\* active strategy the handler returns at once.
PassLoad(p, endpoints, bids, asks, no_quotes) ==
    /\ psessions[p].pc = "idle"
    /\ \E a \in OneAccount, endpoint \in endpoints :
         IF ActiveStrategies(a) = <<>>
         THEN /\ last' = PassResponse(endpoint, a, 0, <<>>)
              /\ UNCHANGED psessions
         ELSE LET loaded == ActiveStrategies(a)
                  tickers == {strategies[loaded[i]].ticker : i \in 1..Len(loaded)}
              IN
              \E market_map \in [tickers -> {NoMarket} \cup
                                   [present : {TRUE}, yes_bid : bids, yes_ask : asks,
                                    no_bid : no_quotes, no_ask : no_quotes]] :
                 /\ psessions' = [psessions EXCEPT ![p] =
                        [pc |-> "gather", endpoint |-> endpoint, account_name |-> a,
                         strategies |-> loaded,
                         market |-> [t \in Tickers |->
                             IF t \in tickers THEN market_map[t] ELSE NoMarket],
                         tasks |-> [i \in 1..Len(loaded) |-> NewTask]]]
                 /\ UNCHANGED last
    /\ UNCHANGED <<balance, positions, orders, transactions, procs, strategies, csessions>>
    /\ UNCHANGED <<kalshi_vars, value_vars>>

\* The OPEN BUY orders of the account on the ticker and side that have not
\* expired.
ExistingOrders(a, ticker, side) ==
    {o \in 1..Len(kalshi_orders) :
        /\ kalshi_orders[o].account_id = a
        /\ kalshi_orders[o].ticker = ticker
        /\ kalshi_orders[o].side = side
        /\ kalshi_orders[o].action = "buy"
        /\ kalshi_orders[o].status = "open"
        /\ kalshi_orders[o].expiration_ts > now}

Min(x, y) == IF x <= y THEN x ELSE y

\* size = min(floor(entry_max_capital_risk / ask_price), entry_max_position_shares)
\* A variant that sizes by the share limit alone.
EntrySizeByShares(strategy, ask_price) == strategy.entry_max_position_shares

EntrySize(strategy, ask_price) ==
    Min(strategy.entry_max_capital_risk \div ask_price, strategy.entry_max_position_shares)

\* A variant that sells on any bid at or above the stop-loss price.
TakeProfitAboveStop(strategy, bid_price) == bid_price >= strategy.exit_stop_loss_price

TakeProfit(strategy, bid_price) == bid_price >= strategy.exit_take_profit_price

StopLoss(strategy, bid_price) == bid_price <= strategy.exit_stop_loss_price

\* A variant without the check of the edge.
EntrySkippedPriceOnly(strategy, ask_price) ==
    \/ ask_price > strategy.entry_max_price
    \/ EntrySize(strategy, ask_price) <= 0

\* The entry rules skip the strategy: the ask is above the maximum, the
\* edge below the minimum, or the size is zero.
EntrySkipped(strategy, ask_price) ==
    \/ ask_price > strategy.entry_max_price
    \/ strategy.thesis_probability - ask_price < strategy.entry_min_implied_edge
    \/ EntrySize(strategy, ask_price) <= 0

\* What process_strategy_handler decides before it places an order: a
\* result, or the order to place.
Decision(strategy, market) ==
    LET ask_price == IF strategy.side = "yes" THEN market.yes_ask ELSE market.no_ask
        bid_price == IF strategy.side = "yes" THEN market.yes_bid ELSE market.no_bid
        row == kalshi_positions[<<strategy.account_name, strategy.ticker>>]
        position_size == IF row.exists THEN row.position ELSE 0
        position_side == IF position_size >= 0 THEN "yes" ELSE "no"
        count == IF position_size >= 0 THEN position_size ELSE -position_size
        existing == ExistingOrders(strategy.account_name, strategy.ticker, strategy.side)
    IN
    IF ~market.present THEN [result |-> "error", intent |-> NoIntent]
    ELSE IF ask_price = NoPrice \/ bid_price = NoPrice
    THEN [result |-> "error", intent |-> NoIntent]
    ELSE IF position_size # 0
    THEN IF position_side # strategy.side
         THEN [result |-> "error", intent |-> NoIntent]
         ELSE IF TakeProfit(strategy, bid_price)
         THEN [result |-> "sell_take_profit",
               intent |-> [action |-> "sell", type |-> "limit", count |-> count,
                           price_cents |-> bid_price]]
         ELSE IF StopLoss(strategy, bid_price)
         THEN [result |-> "sell_stop_loss",
               intent |-> [action |-> "sell", type |-> "market", count |-> count,
                           price_cents |-> NoPrice]]
         ELSE [result |-> "hold", intent |-> NoIntent]
    ELSE IF EntrySkipped(strategy, ask_price)
    THEN [result |-> "skip", intent |-> NoIntent]
    ELSE IF Cardinality(existing) > 1
    THEN \* scalar_one_or_none raises MultipleResultsFound
         [result |-> "error", intent |-> NoIntent]
    ELSE IF existing # {}
    THEN [result |-> "skip", intent |-> NoIntent]
    ELSE [result |-> "buy",
          intent |-> [action |-> "buy", type |-> "limit",
                      count |-> EntrySize(strategy, ask_price),
                      price_cents |-> ask_price]]

\* The task reads the quotes of the pass, the position and the OPEN BUY
\* orders, and decides.
TaskEvaluate(p, i) ==
    LET ps == psessions[p]
        decision == Decision(strategies[ps.strategies[i]], ps.market[strategies[ps.strategies[i]].ticker])
    IN
    /\ ps.pc = "gather"
    /\ i \in 1..Len(ps.tasks)
    /\ ps.tasks[i].pc = "evaluate"
    /\ psessions' = [psessions EXCEPT ![p].tasks[i] =
           IF decision.intent = NoIntent
           THEN [pc |-> "done", intent |-> NoIntent, result |-> decision.result]
           ELSE [pc |-> "place", intent |-> decision.intent, result |-> decision.result]]
    /\ UNCHANGED <<balance, positions, orders, transactions, procs, last, strategies, csessions>>
    /\ UNCHANGED <<kalshi_vars, value_vars>>

\* create_kalshi_order for the order the task decided on: the order is
\* refused, which ends the task with an error, or inserted and committed.
\* A stop loss goes on to expire the strategy.
TaskPlace(p, i, rows) ==
    LET ps == psessions[p]
        strategy == strategies[ps.strategies[i]]
        task == ps.tasks[i]
        intent == task.intent
    IN
    /\ ps.pc = "gather"
    /\ i \in 1..Len(ps.tasks)
    /\ task.pc = "place"
    /\ IF KalshiRejected(strategy.account_name, intent.action, intent.count,
                         intent.type, intent.price_cents)
       THEN /\ psessions' = [psessions EXCEPT ![p].tasks[i] =
                   [pc |-> "done", intent |-> NoIntent, result |-> "error"]]
            /\ UNCHANGED kalshi_orders
       ELSE /\ Len(kalshi_orders) < rows
            /\ kalshi_orders' = Append(kalshi_orders,
                   NewKalshiOrder(strategy.account_name, strategy.ticker, strategy.side,
                                  intent.action, intent.count, intent.type,
                                  intent.price_cents))
            /\ psessions' = [psessions EXCEPT ![p].tasks[i] =
                   IF task.result = "sell_stop_loss"
                   THEN [task EXCEPT !.pc = "expire"]
                   ELSE [pc |-> "done", intent |-> NoIntent, result |-> task.result]]
    /\ UNCHANGED <<balance, positions, orders, transactions, procs, last, strategies, csessions>>
    /\ UNCHANGED <<kalshi_positions, ksessions, now, value_vars>>

\* A variant that leaves a strategy that has an expiration as it is.
StopLossExpiryIfOpenEnded(strategy_id) ==
    IF strategies[strategy_id].valid_until_utc = NoTime
    THEN [strategies EXCEPT ![strategy_id].valid_until_utc = now]
    ELSE strategies

\* The strategy is selected again and expired.
StopLossExpiry(strategy_id) ==
    [strategies EXCEPT ![strategy_id].valid_until_utc = now]

\* After the stop-loss order, the expiry of the strategy is committed.
TaskExpire(p, i) ==
    LET ps == psessions[p] IN
    /\ ps.pc = "gather"
    /\ i \in 1..Len(ps.tasks)
    /\ ps.tasks[i].pc = "expire"
    /\ strategies' = StopLossExpiry(ps.strategies[i])
    /\ psessions' = [psessions EXCEPT ![p].tasks[i] =
           [pc |-> "done", intent |-> NoIntent, result |-> "sell_stop_loss"]]
    /\ last' = StrategyCall("process_strategy", ps.strategies[i], "sell_stop_loss", <<>>)
    /\ UNCHANGED <<balance, positions, orders, transactions, procs, csessions>>
    /\ UNCHANGED <<kalshi_vars, value_vars>>

\* A variant that leaves the failed strategies out of the response.
ResultsWithoutErrors(ps) ==
    SelectSeq([i \in 1..Len(ps.tasks) |->
                  [strategy_id |-> ps.strategies[i], action |-> ps.tasks[i].result]],
              LAMBDA r : r.action # "error")

\* processed_results: the result of every task, an exception as an error
\* result, in the order of the strategies.
Results(ps) ==
    [i \in 1..Len(ps.tasks) |->
        [strategy_id |-> ps.strategies[i], action |-> ps.tasks[i].result]]

\* Every task has ended: the response is returned.
PassReturn(p) ==
    LET ps == psessions[p] IN
    /\ ps.pc = "gather"
    /\ \A i \in 1..Len(ps.tasks) : ps.tasks[i].pc = "done"
    /\ last' = PassResponse(ps.endpoint, ps.account_name, Len(ps.strategies), Results(ps))
    /\ psessions' = [psessions EXCEPT ![p] = IdlePass]
    /\ UNCHANGED <<balance, positions, orders, transactions, procs, strategies, csessions>>
    /\ UNCHANGED <<kalshi_vars, value_vars>>

\* The routes that run a pass for an account.
Endpoints == {"process_strategies", "batch_process_strategies"}

\* The passes of the given routes, on the given sessions, with the quotes
\* drawn from the given sets and the orders table bounded by rows.
ProcessStrategiesFrom(sessions, endpoints, bids, asks, no_quotes, rows) ==
    \E p \in sessions :
        \/ PassLoad(p, endpoints, bids, asks, no_quotes)
        \/ \E i \in 1..MaxStrategies : TaskEvaluate(p, i)
        \/ \E i \in 1..MaxStrategies : TaskPlace(p, i, rows)
        \/ \E i \in 1..MaxStrategies : TaskExpire(p, i)
        \/ PassReturn(p)

\* The strategies of the requests: a thesis at MaxPrice + 1 cents that
\* enters up to MaxPrice cents with an edge of a cent, risks MaxPrice cents
\* on at most MaxSize contracts, takes its profit at MaxPrice cents and
\* stops its loss at a cent.
StrategyOn(ticker, side, valid_until_utc) ==
    [account_name |-> "acct", ticker |-> ticker, side |-> side,
     thesis |-> "thesis", thesis_probability |-> MaxPrice + 1,
     entry_max_price |-> MaxPrice, entry_min_implied_edge |-> 1,
     entry_max_capital_risk |-> MaxPrice, entry_max_position_shares |-> MaxSize,
     exit_take_profit_price |-> MaxPrice, exit_stop_loss_price |-> 1,
     exit_time_stop_utc |-> MaxNow + 1, valid_until_utc |-> valid_until_utc,
     notes |-> "notes"]

\* The update requests: for the strategy, nothing set, everything set, or
\* one field set.
NothingSet(strategy_id) ==
    [strategy_id |-> strategy_id, thesis |-> NoText, thesis_probability |-> NoNumber,
     entry_max_price |-> NoNumber, exit_take_profit_price |-> NoNumber,
     exit_stop_loss_price |-> NoNumber, exit_time_stop_utc |-> NoTime,
     valid_until_utc |-> NoTime, notes |-> NoText]

EverythingSet(strategy_id) ==
    [strategy_id |-> strategy_id, thesis |-> "revised", thesis_probability |-> MaxPrice,
     entry_max_price |-> 1, exit_take_profit_price |-> MaxPrice + 1,
     exit_stop_loss_price |-> 0, exit_time_stop_utc |-> MaxNow,
     valid_until_utc |-> MaxNow + 1, notes |-> "revised"]

UpdateRequests(strategy_id) ==
    LET none == NothingSet(strategy_id)
        all == EverythingSet(strategy_id)
    IN  {none, all,
         [none EXCEPT !.thesis = all.thesis],
         [none EXCEPT !.thesis_probability = all.thesis_probability],
         [none EXCEPT !.entry_max_price = all.entry_max_price],
         [none EXCEPT !.exit_take_profit_price = all.exit_take_profit_price],
         [none EXCEPT !.exit_stop_loss_price = all.exit_stop_loss_price],
         [none EXCEPT !.exit_time_stop_utc = all.exit_time_stop_utc],
         [none EXCEPT !.valid_until_utc = all.valid_until_utc],
         [none EXCEPT !.notes = all.notes]}

CreateStrategy ==
    CreateStrategyFrom({StrategyOn("K1", "yes", valid_until_utc) :
                           valid_until_utc \in {NoTime} \cup 1..(MaxNow + 1)})

UpdateStrategy ==
    UpdateStrategyFrom(UNION {UpdateRequests(strategy_id) :
                                 strategy_id \in 1..(MaxStrategies + 1)})

\* The strategies of an account as they are created, revised and removed
\* while time passes.
NextVersions ==
    \/ CreateStrategy
    \/ UpdateStrategy
    \/ RemoveStrategy
    \/ Tick

SpecVersions == Init /\ [][NextVersions]_vars

\* Strategies that are revised and removed, also after they have expired,
\* while orders for one contract are placed and filled.
NextRemoval ==
    \/ CreateStrategyFrom({StrategyOn("K1", "yes", valid_until_utc) :
                              valid_until_utc \in {NoTime, 1}})
    \/ UpdateStrategyFrom({NothingSet(strategy_id) :
                              strategy_id \in 1..MaxStrategies})
    \/ RemoveStrategy
    \/ Tick
    \/ CreateKalshiOrderFrom({"K1"}, {"yes"}, {1}, {MaxNow + 1})
    \/ ProcessKalshiOrdersFrom({1})

SpecRemoval == Init /\ [][NextRemoval]_vars

\* The strategies of the entry requests: the strategy above and the ones
\* that differ from it in one entry limit.
EntryStrategies(ticker) ==
    LET strategy == StrategyOn(ticker, "yes", NoTime) IN
    {strategy,
     [strategy EXCEPT !.entry_max_price = 1],
     [strategy EXCEPT !.entry_min_implied_edge = MaxPrice],
     [strategy EXCEPT !.entry_max_capital_risk = 1]}

\* One account entering one ticker by its strategies, one pass at a time;
\* process_kalshi_orders fills the orders at a wide quote, so that a
\* position bought and sold again has cost part of the balance.
NextEntry ==
    \/ CreateStrategyFrom(EntryStrategies("K1"))
    \/ ProcessStrategiesFrom({"s1"}, {"process_strategies"}, {1},
                             {NoPrice} \cup Prices, {1}, MaxKalshiOrders + 1)
    \/ ProcessKalshiOrdersAt({1}, {MaxPrice}, {1})
    \/ Tick

SpecEntry == Init /\ [][NextEntry]_vars

\* The strategies of the exit requests: the strategy above, open-ended or
\* with an expiration, and one that never stops a loss.
ExitStrategies(ticker) ==
    {StrategyOn(ticker, "yes", NoTime),
     StrategyOn(ticker, "yes", MaxNow + 1),
     [StrategyOn(ticker, "yes", NoTime) EXCEPT !.exit_stop_loss_price = 0]}

\* One account trading one ticker by its strategies: the passes of one
\* caller at a time place the orders and process_kalshi_orders fills them
\* at a quote of one cent.
NextExit ==
    \/ CreateStrategyFrom(ExitStrategies("K1"))
    \/ ProcessStrategiesFrom({"s1"}, {"process_strategies"}, {NoPrice} \cup Prices,
                             {1}, {1}, MaxKalshiOrders + 1)
    \/ ProcessKalshiOrdersAt({1}, {1}, {1})
    \/ Tick

SpecExit == Init /\ [][NextExit]_vars

\* Two callers at a time run passes for the account, through
\* process_strategies and batch_process_strategies.
NextPasses ==
    \/ CreateStrategyFrom({StrategyOn("K1", "yes", NoTime)})
    \/ ProcessStrategiesFrom(PSessions, Endpoints, {1}, {1}, {1}, MaxKalshiOrders + 1)
    \/ ProcessKalshiOrdersAt({1}, {1}, {1})
    \/ Tick

SpecPasses == Init /\ [][NextPasses]_vars

\* One account with a strategy on each of two tickers: a pass evaluates
\* both, and a ticker may lack its quote.
NextIsolation ==
    \/ CreateStrategyFrom({StrategyOn(ticker, "yes", NoTime) : ticker \in Tickers})
    \/ ProcessStrategiesFrom({"s1"}, {"process_strategies"}, {1}, {NoPrice, 1}, {1},
                             MaxKalshiOrders + 1)
    \/ ProcessKalshiOrdersAt({1}, {1}, {1})

SpecIsolation == Init /\ [][NextIsolation]_vars

(* --------------------------- steps, as observed ------------------------ *)
\* The step completes a place_limit_order call.
PlaceStep == last' # last /\ last'.op = "place"
\* The step commits the cancellation of order o.
CancelStep(o) ==
    /\ o \in 1..Len(orders)
    /\ last' # last /\ last'.op = "cancel" /\ last'.order_id = o
    /\ last'.status = "cancelled"
\* The step commits a process_open_orders run that filled order o.
FillStep(o) ==
    \E p \in Procs :
        /\ procs[p].pc = "loop" /\ procs'[p].pc = "idle"
        /\ last'.op = "process" /\ last'.status = "done"
        /\ \E i \in 1..Len(procs[p].filled) : procs[p].filled[i] = o

Ledger == <<balance, positions, orders, transactions>>

(* ------------------------------- C1 ------------------------------------ *)
\* C1: an order's status changes only OPEN -> FILLED or OPEN -> CANCELLED;
\* an order that is FILLED or CANCELLED never changes status again.
C1_StatusMachine ==
    [][\A o \in 1..Len(orders) :
          orders'[o].status # orders[o].status
              => /\ orders[o].status = "OPEN"
                 /\ orders'[o].status \in {"FILLED", "CANCELLED"}]_vars

(* ------------------------------- C2 ------------------------------------ *)
\* C2: no order is both refunded and filled: the fill effects of an order
\* are never committed once its cancel refund has been committed, and the
\* refund is never committed once the fill has been.
C2_RefundXorFill ==
    [][\A o \in 1..Len(orders) :
          /\ FillStep(o) => orders[o].status # "CANCELLED"
          /\ CancelStep(o) => orders[o].status # "FILLED"]_vars

(* ------------------------------- C3 ------------------------------------ *)
\* C3: cash conservation: balance plus the cash reserved by OPEN BUY orders
\* equals the starting balance minus the BUY Transactions plus the SELL
\* Transactions.
C3_CashConservation ==
    \A a \in Accounts :
        balance[a] + OpenBuyReserved(a)
            = 2 * StartCents - TxCash(a, "BUY") + TxCash(a, "SELL")

(* ------------------------------- C4 ------------------------------------ *)
\* C4: share conservation: a position's shares plus the shares reserved by
\* OPEN SELL orders equal the shares bought minus the shares sold.
C4_ShareConservation ==
    \A k \in PosKeys :
        positions[k].shares + OpenSellSize(k) = TxShares(k, "BUY") - TxShares(k, "SELL")

(* ------------------------------- C5 ------------------------------------ *)
\* The position row of the call recorded in r.
KeyOf(r) == <<r.account_id, r.token_id>>

\* C5: a non-crossing placement creates an OPEN order, appends no
\* Transaction and reserves exactly price * size of balance (BUY) or size
\* shares (SELL); cancelling that order right after it returns the balance
\* and the shares to their values before the placement.
C5_ReservationRoundTrip ==
    [][/\ (PlaceStep /\ last'.status = "open") =>
            /\ Len(orders') = Len(orders) + 1
            /\ orders'[Len(orders')].status = "OPEN"
            /\ transactions' = transactions
            /\ IF last'.side = "BUY"
               THEN /\ balance'[last'.account_id]
                         = balance[last'.account_id] - last'.price * last'.size
                    /\ positions' = positions
               ELSE /\ positions'[KeyOf(last')].shares
                         = positions[KeyOf(last')].shares - last'.size
                    /\ balance' = balance
       /\ \A o \in 1..Len(orders) :
            (CancelStep(o) /\ last.op = "place" /\ last.status = "open"
                           /\ last.order_id = o) =>
                /\ balance'[last.account_id] = last.balance
                /\ positions'[KeyOf(last)].shares = last.shares]_vars

(* ------------------------------- C7 ------------------------------------ *)
\* The position pos holds n - k shares at the cost C * (n - k) / n, to the
\* nearest cent (one unit is half a cent).
Proportional(pos, n, C, k) ==
    /\ pos.shares = n - k
    /\ pos.total_cost * n - C * (n - k) <= n
    /\ C * (n - k) - pos.total_cost * n <= n

\* C7: after a SELL fill of k shares, immediate or of a resting order by
\* process_open_orders, from a position of n shares (the k reserved ones
\* included) with total cost C, the position holds n - k shares and its
\* total_cost is C * (n - k) / n.
C7_CostBasisProportional ==
    [][/\ (PlaceStep /\ last'.side = "SELL" /\ last'.status = "filled") =>
            Proportional(positions'[KeyOf(last')], positions[KeyOf(last')].shares,
                         positions[KeyOf(last')].total_cost, last'.size)
       /\ \A o \in 1..Len(orders) :
            (/\ FillStep(o)
             /\ \E p \in Procs : procs[p].filled = <<o>>
             /\ orders[o].side = "SELL" /\ orders[o].status = "OPEN") =>
                LET k == <<orders[o].account_id, orders[o].token_id>> IN
                Proportional(positions'[k], positions[k].shares + orders[o].size,
                             positions[k].total_cost, orders[o].size)]_vars

(* ------------------------------- C8 ------------------------------------ *)
\* The effects of an immediate fill of the request r at the market price,
\* with Stored(x) the amount x as the balance and total_cost columns hold it.
CrossingFill(r, Stored(_)) ==
    LET a == r.account_id
        k == KeyOf(r)
        amount == r.market_price * r.size
    IN
    /\ r.status = "filled"
    /\ orders' = orders
    /\ transactions' = Append(transactions,
           [account_id |-> a, token_id |-> r.token_id, side |-> r.side,
            execution_price |-> r.market_price, size |-> r.size])
    /\ IF r.side = "BUY"
       THEN /\ balance'[a] = Stored(balance[a] - amount)
            /\ positions'[k].shares = positions[k].shares + r.size
            /\ positions'[k].total_cost = Stored(positions[k].total_cost + amount)
       ELSE /\ balance'[a] = Stored(balance[a] + amount)
            /\ positions'[k].shares = positions[k].shares - r.size

\* The request r crosses the quote and the account can cover it.
Crossing(r) ==
    IF r.side = "BUY"
    THEN r.price >= r.market_price /\ balance[r.account_id] >= r.price * r.size
    ELSE r.price <= r.market_price /\ positions[KeyOf(r)].exists
                                   /\ positions[KeyOf(r)].shares >= r.size

Exact(x) == x

\* C8 as stated: a crossing order fills in the placing call at the quote:
\* the balance moves by exactly quote * size, a BUY adds size shares and
\* quote * size of total_cost, one Transaction at the quote is appended and
\* no order row is left.
C8_CrossingFillExact ==
    [][(PlaceStep /\ Crossing(last')) => CrossingFill(last', Exact)]_vars

\* What the code does instead: the same, with the new balance and total_cost
\* rounded to the cent, the scale of their columns.
C8_CrossingFillRounded ==
    [][(PlaceStep /\ Crossing(last')) => CrossingFill(last', RoundCents)]_vars

\* A BUY filled below its limit price, and at a quote below the cent.
C8_Witness ==
    /\ last.op = "place" /\ last.status = "filled" /\ last.side = "BUY"
    /\ last.market_price < last.price
    /\ last.market_price * last.size # RoundCents(last.market_price * last.size)
    /\ Len(transactions) > 0
    /\ transactions[Len(transactions)].execution_price = last.market_price

(* ------------------------------- C9 ------------------------------------ *)
\* C9: a BUY whose limit price * size exceeds the balance is rejected, also
\* when it would cross and quote * size is affordable, and the rejection
\* changes no balance, position, order or transaction.
C9_InsufficientFunds ==
    [][(/\ PlaceStep /\ last'.side = "BUY"
        /\ last'.price * last'.size > balance[last'.account_id]) =>
            /\ last'.status = "rejected"
            /\ UNCHANGED Ledger]_vars

\* A rejected BUY that crosses and whose cost at the ask is affordable.
C9_Witness ==
    /\ last.op = "place" /\ last.side = "BUY" /\ last.status = "rejected"
    /\ last.price * last.size > last.balance
    /\ last.price >= last.market_price
    /\ last.market_price * last.size <= last.balance
    /\ balance[last.account_id] = last.balance

(* ------------------------------- C10 ----------------------------------- *)
\* Shares the positions table attributes to the account: free and reserved.
Held(k) == positions[k].shares + OpenSellSize(k)

C11_CancelNonOpen ==
    [][\A o \in 1..Len(orders) :
          /\ (/\ last' # last /\ last'.op = "cancel" /\ last'.order_id = o
              /\ orders[o].status # "OPEN") =>
                 /\ last'.status = "rejected"
                 /\ UNCHANGED Ledger
          /\ CancelStep(o) =>
                 /\ orders[o].status = "OPEN"
                 /\ orders'[o].status = "CANCELLED"
          /\ orders[o].status # "OPEN" => orders'[o].status # "OPEN"]_vars

\* The second cancel of an order: refused, with the balance as the first
\* cancel left it.
C11_Witness ==
    /\ last.op = "cancel" /\ last.status = "rejected"
    /\ last.order_id \in 1..Len(orders)
    /\ orders[last.order_id].status = "CANCELLED"
    /\ orders[last.order_id].side = "BUY"
    /\ balance[last.account_id] = last.balance

(* ------------------------------- C12 ----------------------------------- *)
\* The step completes an audit_account call.
AuditStep == last' # last /\ last'.op = "audit"

\* C12: in every reachable state, states with OPEN resting orders included,
\* the audit's replay of the Transactions gives the live balance and the
\* live shares of every token, and it reports is_consistent = true.
C12_AuditConsistent ==
    [][AuditStep =>
          /\ last'.expected_balance = balance[last'.account_id]
          /\ \A t \in Tokens :
                last'.expected_shares[t] = ActualShares(<<last'.account_id, t>>)
          /\ last'.is_consistent]_vars

(* ------------------------------- C13 ----------------------------------- *)
\* C13: audit_account changes no Account, Position, Order or Transaction
\* row, and an audit that follows an audit of the same account with no
\* call in between returns the same response.
C13_AuditPureRead ==
    [][/\ AuditStep => UNCHANGED Ledger
       /\ (last'.op = "audit" /\ last.op = "audit"
            /\ last'.account_id = last.account_id) => last' = last]_vars

\* An audit that found a discrepancy and left it in place.
C13_Witness ==
    /\ last.op = "audit" /\ ~last.is_consistent
    /\ last.expected_balance # balance[last.account_id]
    /\ last.balance = balance[last.account_id]

(* ------------------------------- C14 ----------------------------------- *)
\* The step commits the process_open_orders run of session p.
RunCommits(p) ==
    /\ procs[p].pc = "loop" /\ procs'[p].pc = "idle"
    /\ last'.op = "process" /\ last'.status = "done"

\* The session's quotes have the side the order needs.
Quoted(order, s) ==
    IF order.side = "BUY" THEN s.ask[order.token_id] # NoPrice
    ELSE s.bid[order.token_id] # NoPrice

\* C14: a run of process_open_orders fills an OPEN order with a quote iff
\* the ask is at or below the limit price of a BUY, the bid at or above the
\* limit price of a SELL; it leaves every other order as it is, OPEN, and
\* it sets no order to CANCELLED.
C14_BatchFillRule ==
    [][\A p \in Procs : RunCommits(p) =>
          /\ \A i \in 1..Len(procs[p].open_orders) :
                LET o == procs[p].open_orders[i]
                    order == orders[o]
                    crosses == IF order.side = "BUY"
                               THEN procs[p].ask[order.token_id] <= order.price
                               ELSE procs[p].bid[order.token_id] >= order.price
                IN  (order.status = "OPEN" /\ Quoted(order, procs[p])) =>
                       /\ orders'[o].status = "FILLED" <=> crosses
                       /\ ~crosses => orders'[o] = order
          /\ \A o \in 1..Len(orders) :
                orders'[o].status = "CANCELLED" => orders[o].status = "CANCELLED"]_vars

\* A run that has evaluated an OPEN SELL against a bid below its limit
\* price and has not filled it.
C14_Witness ==
    \E p \in Procs :
        /\ procs[p].pc = "loop"
        /\ procs[p].idx > Len(procs[p].open_orders)
        /\ procs[p].filled = <<>>
        /\ \E i \in 1..Len(procs[p].open_orders) :
              LET order == orders[procs[p].open_orders[i]] IN
              /\ order.status = "OPEN" /\ order.side = "SELL"
              /\ procs[p].bid[order.token_id] # NoPrice
              /\ procs[p].bid[order.token_id] < order.price

(* ------------------------------- C15 ----------------------------------- *)
\* C15: when the batched quotes lack the token of an OPEN order, or the
\* side it needs, the run leaves that order as it is, OPEN, and still fills
\* every other OPEN order of the run whose quote crosses its limit price,
\* and only those.
C15_MissingQuoteIsolated ==
    [][\A p \in Procs : RunCommits(p) =>
          \A i \in 1..Len(procs[p].open_orders) :
             LET o == procs[p].open_orders[i]
                 order == orders[o]
             IN  order.status = "OPEN" =>
                    IF Quoted(order, procs[p])
                    THEN orders'[o].status = "FILLED" <=>
                            IF order.side = "BUY"
                            THEN procs[p].ask[order.token_id] <= order.price
                            ELSE procs[p].bid[order.token_id] >= order.price
                    ELSE orders'[o] = order]_vars

\* A run over two OPEN orders that has filled the one whose quote crosses
\* and has passed over the one whose side the quotes lack.
C15_Witness ==
    \E p \in Procs :
        /\ procs[p].pc = "loop"
        /\ procs[p].idx > Len(procs[p].open_orders)
        /\ Len(procs[p].open_orders) = 2
        /\ Len(procs[p].filled) = 1
        /\ \E i \in 1..2 :
              LET order == orders[procs[p].open_orders[i]] IN
              /\ order.status = "OPEN"
              /\ ~Quoted(order, procs[p])
              /\ procs[p].filled[1] # procs[p].open_orders[i]

(* ------------------------------- C16 ----------------------------------- *)
\* C16: an OPEN order accepted at placement is never cancelled by an order
\* processor at fill time for lack of balance or position.  (The Kalshi
\* processor cancels an order for no other reason.)
C16_NoOvercommit ==
    [][\A o \in 1..Len(kalshi_orders) :
          kalshi_orders[o].status = "open" => kalshi_orders'[o].status # "cancelled"]_vars

(* ------------------------------- C17 ----------------------------------- *)
\* C17: a MARKET order never rests: no MARKET order is ever observable with
\* status OPEN.
C17_MarketNeverRests ==
    \A o \in 1..Len(kalshi_orders) :
        kalshi_orders[o].type = "market" => kalshi_orders[o].status # "open"

(* ------------------------------- C18 ----------------------------------- *)
\* C18: process_kalshi_orders neither fills nor cancels an order whose
\* expiration_ts is not later than the current time: the order stays OPEN.
C18_ExpiredUntouched ==
    [][\A o \in 1..Len(kalshi_orders) :
          (kalshi_orders[o].status = "open" /\ kalshi_orders[o].expiration_ts <= now)
              => kalshi_orders'[o].status = "open"]_vars

(* ------------------------------- C19 ----------------------------------- *)
\* A step of update_account_value.
ValueStep == last'.op = "value" /\ (last' # last \/ value_vars' # value_vars)

\* The step on which an update_account_value request returns its response.
ValueReturns ==
    \E v \in VSessions : vsessions[v].pc # "idle" /\ vsessions'[v].pc = "idle"

\* C19: update_account_value appends exactly one AccountValue row, of the
\* account it was called for, and changes no Account, Position, Order or
\* Transaction row; called for an account that does not exist it fails and
\* appends nothing.  The table is written by no other step.
C19_OneSnapshot ==
    [][/\ ValueStep => UNCHANGED <<Ledger, kalshi_vars>>
       /\ ValueReturns
            => /\ ValueStep /\ last'.status = "done"
               /\ last'.account_id \in Accounts
               /\ Len(account_values') = Len(account_values) + 1
               /\ SubSeq(account_values', 1, Len(account_values)) = account_values
               /\ account_values'[Len(account_values')].account_id = last'.account_id
       /\ ValueStep /\ last'.status = "rejected"
            => /\ last'.account_id \notin Accounts
               /\ UNCHANGED account_values
       /\ ~ValueReturns => UNCHANGED account_values]_vars

\* A second snapshot has been appended after the first, with an order on
\* the books.
C19_Witness ==
    /\ last.op = "value" /\ last.status = "done"
    /\ Len(account_values) = 2
    /\ Len(orders) > 0

(* ------------------------------- C20 ----------------------------------- *)
RECURSIVE TwiceFormulaPositions(_, _, _, _)
\* Twice the value of the shares over the tokens of S: the shares of the
\* Position row and the sizes of the OPEN SELL orders, times the mark price
\* (the midpoint of bid and ask, else the side there is; nothing for a
\* token with no price).
TwiceFormulaPositions(a, S, bid, ask) ==
    IF S = {} THEN 0
    ELSE LET t == CHOOSE x \in S : TRUE
             held == (IF positions[<<a, t>>].exists THEN positions[<<a, t>>].shares ELSE 0)
                       + OpenSellSize(<<a, t>>)
             twice_mark == IF bid[t] # NoPrice /\ ask[t] # NoPrice THEN bid[t] + ask[t]
                           ELSE IF bid[t] # NoPrice THEN 2 * bid[t]
                           ELSE IF ask[t] # NoPrice THEN 2 * ask[t]
                           ELSE 0
         IN  TwiceFormulaPositions(a, S \ {t}, bid, ask) + held * twice_mark

\* Twice the value of the account over the committed rows: balance, plus
\* price times size of the OPEN BUY orders, plus the value of the shares.
TwiceFormulaValue(a, bid, ask) ==
    2 * (balance[a] + OpenBuyReserved(a)) + TwiceFormulaPositions(a, Tokens, bid, ask)

\* C20: the total_value update_account_value stores is balance + price x
\* size of the account's OPEN BUY orders + for every token (position shares
\* + sizes of the OPEN SELL orders) x mark price, a token with no price
\* contributing nothing; read to the cent, which is all the total_value
\* column holds.
C20_ValuationFormula ==
    [][ValueReturns
         => account_values'[Len(account_values')].total_value
              = 2 * ((TwiceFormulaValue(last'.account_id, last'.bid, last'.ask) + 2) \div 4)]_vars

(* ------------------------------- C21 ----------------------------------- *)
\* A step of update_strategy.
UpdateStrategyStep ==
    last'.op = "update_strategy" /\ (last' # last \/ strategies' # strategies)

\* C21: update_strategy on an active strategy commits, in one step, the old
\* row with valid_until = now and a new row with a fresh strategy_id: the
\* old row is never expired without its successor, the successor never
\* inserted with the old row left active, no other field of the old row
\* changes and no other row changes.
C21_AtomicVersioning ==
    [][UpdateStrategyStep =>
         LET old == last'.strategy_id IN
         IF last'.status = "done"
         THEN /\ old \in 1..Len(strategies)
              /\ Active(strategies[old], now)
              /\ Len(strategies') = Len(strategies) + 1
              /\ strategies'[old] = [strategies[old] EXCEPT !.valid_until_utc = now]
              /\ ~Active(strategies'[old], now)
              /\ \A i \in 1..Len(strategies) : i # old => strategies'[i] = strategies[i]
         ELSE UNCHANGED strategies]_vars

\* An update has expired a strategy that was to last longer and inserted
\* its revised successor.
C21_Witness ==
    /\ last.op = "update_strategy" /\ last.status = "done"
    /\ Len(strategies) = 2
    /\ strategies[last.strategy_id].valid_until_utc = now
    /\ strategies[2].thesis = "revised"
    /\ Active(strategies[2], now)

(* ------------------------------- C22 ----------------------------------- *)
\* The fields of a strategy the request of an update can set, and those it
\* cannot.
Settable == {"thesis", "thesis_probability", "entry_max_price",
             "exit_take_profit_price", "exit_stop_loss_price",
             "exit_time_stop_utc", "valid_until_utc", "notes"}
Fixed == {"account_name", "ticker", "side", "entry_min_implied_edge",
          "entry_max_capital_risk", "entry_max_position_shares"}
IsSet(request, f) ==
    IF f \in {"thesis", "notes"} THEN request[f] # NoText
    ELSE IF f \in {"exit_time_stop_utc", "valid_until_utc"} THEN request[f] # NoTime
    ELSE request[f] # NoNumber

RevisionStep ==
    /\ last'.op \in {"update_strategy", "remove_strategy"}
    /\ last' # last \/ strategies' # strategies

\* C23: update_strategy and remove_strategy on a strategy whose valid_until
\* is set and not later than now are rejected, and a rejection changes no
\* Strategy row and creates no order.
C23_ExpiredRejected ==
    [][RevisionStep =>
         LET id == last'.strategy_id IN
         /\ (id \in 1..Len(strategies) /\ ~Active(strategies[id], now))
               => last'.status = "rejected"
         /\ last'.status = "rejected"
               => /\ id \in 1..Len(strategies) /\ ~Active(strategies[id], now)
                  /\ UNCHANGED <<strategies, kalshi_orders, kalshi_positions, balance>>]_vars

\* remove_strategy has been rejected for an expired strategy whose account
\* holds a position on its ticker.
C23_Witness ==
    /\ last.op = "remove_strategy" /\ last.status = "rejected"
    /\ strategies[last.strategy_id].valid_until_utc = now
    /\ kalshi_positions[<<strategies[last.strategy_id].account_name,
                          strategies[last.strategy_id].ticker>>].position # 0

(* --------------------------- the entry decision ----------------------- *)
\* The strategy of task i of the pass p and the quotes the pass holds for
\* it.
TaskStrategy(p, i) == strategies[psessions[p].strategies[i]]

TaskAsk(p, i) ==
    LET market == psessions[p].market[TaskStrategy(p, i).ticker] IN
    IF TaskStrategy(p, i).side = "yes" THEN market.yes_ask ELSE market.no_ask

TaskBid(p, i) ==
    LET market == psessions[p].market[TaskStrategy(p, i).ticker] IN
    IF TaskStrategy(p, i).side = "yes" THEN market.yes_bid ELSE market.no_bid

\* Task i of the pass p is about to evaluate its strategy, with quotes.
Evaluating(p, i) ==
    /\ psessions[p].pc = "gather"
    /\ i \in 1..Len(psessions[p].tasks)
    /\ psessions[p].tasks[i].pc = "evaluate"
    /\ psessions[p].market[TaskStrategy(p, i).ticker].present
    /\ TaskAsk(p, i) # NoPrice
    /\ TaskBid(p, i) # NoPrice

\* The position the account of the task holds on its ticker.
TaskPosition(p, i) ==
    LET row == kalshi_positions[<<TaskStrategy(p, i).account_name,
                                  TaskStrategy(p, i).ticker>>]
    IN  IF row.exists THEN row.position ELSE 0

\* The step evaluates the strategy of task i.
Evaluated(p, i) ==
    /\ Evaluating(p, i)
    /\ psessions'[p].pc = "gather"
    /\ psessions'[p].tasks[i].pc # "evaluate"

\* The step ends the create_kalshi_order call of task i.
Placed(p, i) ==
    /\ psessions[p].pc = "gather"
    /\ i \in 1..Len(psessions[p].tasks)
    /\ psessions[p].tasks[i].pc = "place"
    /\ psessions'[p].pc = "gather"
    /\ psessions'[p].tasks[i].pc # "place"

\* The size the claim gives: min(floor(risk / ask), shares).
ClaimedSize(p, i) ==
    LET quotient == TaskStrategy(p, i).entry_max_capital_risk \div TaskAsk(p, i)
        shares == TaskStrategy(p, i).entry_max_position_shares
    IN  IF quotient <= shares THEN quotient ELSE shares

\* The conditions the claim gives for an entry.
ClaimedEntry(p, i) ==
    /\ TaskAsk(p, i) <= TaskStrategy(p, i).entry_max_price
    /\ TaskStrategy(p, i).thesis_probability - TaskAsk(p, i)
           >= TaskStrategy(p, i).entry_min_implied_edge
    /\ ClaimedSize(p, i) > 0
    /\ ~ \E o \in 1..Len(kalshi_orders) :
           /\ kalshi_orders[o].account_id = TaskStrategy(p, i).account_name
           /\ kalshi_orders[o].ticker = TaskStrategy(p, i).ticker
           /\ kalshi_orders[o].side = TaskStrategy(p, i).side
           /\ kalshi_orders[o].action = "buy"
           /\ kalshi_orders[o].status = "open"
           /\ kalshi_orders[o].expiration_ts > now

\* The step appends to the orders the order the task decided on, OPEN.
IntentInserted(p, i) ==
    LET intent == psessions[p].tasks[i].intent
        order == kalshi_orders'[Len(kalshi_orders')]
    IN
    /\ Len(kalshi_orders') = Len(kalshi_orders) + 1
    /\ SubSeq(kalshi_orders', 1, Len(kalshi_orders)) = kalshi_orders
    /\ order.account_id = TaskStrategy(p, i).account_name
    /\ order.ticker = TaskStrategy(p, i).ticker
    /\ order.side = TaskStrategy(p, i).side
    /\ order.action = intent.action
    /\ order.type = intent.type
    /\ order.count = intent.count
    /\ intent.type = "limit" => order.price = intent.price_cents
    /\ order.status = "open"

\* With no position, the strategy is entered exactly under the conditions
\* of the claim, by a limit BUY at the ask for the size.
EntryDecided(p, i) ==
    (Evaluated(p, i) /\ TaskPosition(p, i) = 0) =>
        /\ kalshi_orders' = kalshi_orders
        /\ IF ClaimedEntry(p, i)
           THEN /\ psessions'[p].tasks[i].pc = "place"
                /\ psessions'[p].tasks[i].intent =
                       [action |-> "buy", type |-> "limit",
                        count |-> ClaimedSize(p, i), price_cents |-> TaskAsk(p, i)]
           ELSE psessions'[p].tasks[i].pc = "done"

\* A BUY order appears only as the order of a task that decided to enter.
OnlyDecidedEntries ==
    (\E o \in 1..Len(kalshi_orders') :
        o > Len(kalshi_orders) /\ kalshi_orders'[o].action = "buy")
    => \E p \in PSessions, i \in 1..MaxStrategies :
          Placed(p, i) /\ psessions[p].tasks[i].intent.action = "buy"

\* C24 as claimed: with no position and quotes available, a pass places an
\* order if and only if the ask is at most entry_max_price, the edge at
\* least entry_min_implied_edge, the size positive and no OPEN unexpired BUY
\* order exists; the order is a limit BUY at the ask for the size.
C24_EntryWheneverDecided ==
    [][/\ \A p \in PSessions, i \in 1..MaxStrategies :
             /\ EntryDecided(p, i)
             /\ (Placed(p, i) /\ psessions[p].tasks[i].intent.action = "buy")
                    => IntentInserted(p, i)
       /\ OnlyDecidedEntries]_vars

\* C24, amended: with no position and quotes available in whole cents, a
\* pass places an order if and only if the ask is at most entry_max_price,
\* the edge at least entry_min_implied_edge, the size positive, no OPEN
\* unexpired BUY order exists, and create_kalshi_order accepts the order:
\* the ask is between 1 and 99 cents and the balance it reads is at least
\* ask x size.  The order is a limit BUY at the ask for the size; in every
\* other case no order is created.
C24_EntryDecision ==
    [][/\ \A p \in PSessions, i \in 1..MaxStrategies :
             /\ EntryDecided(p, i)
             /\ (Placed(p, i) /\ psessions[p].tasks[i].intent.action = "buy")
                    => LET intent == psessions[p].tasks[i].intent IN
                       IF /\ intent.price_cents >= 1
                          /\ intent.price_cents <= 99
                          /\ balance[TaskStrategy(p, i).account_name]
                                 >= 2 * intent.price_cents * intent.count
                       THEN IntentInserted(p, i)
                       ELSE kalshi_orders' = kalshi_orders
       /\ OnlyDecidedEntries]_vars

\* A pass has entered a strategy: its BUY order is in the table.
C24_Witness ==
    \E p \in PSessions : \E i \in 1..Len(psessions[p].tasks) :
        /\ psessions[p].tasks[i].pc = "done"
        /\ psessions[p].tasks[i].result = "buy"
        /\ \E o \in 1..Len(kalshi_orders) :
              /\ kalshi_orders[o].action = "buy"
              /\ kalshi_orders[o].type = "limit"
              /\ kalshi_orders[o].status = "open"
              /\ kalshi_orders[o].ticker = TaskStrategy(p, i).ticker

(* --------------------------- the exit decision ------------------------ *)
\* The account of task i holds a position on the side of its strategy.
HoldsOnSide(p, i) ==
    \/ TaskPosition(p, i) > 0 /\ TaskStrategy(p, i).side = "yes"
    \/ TaskPosition(p, i) < 0 /\ TaskStrategy(p, i).side = "no"

\* The size of the position of task i.
HeldContracts(p, i) == IF TaskPosition(p, i) >= 0 THEN TaskPosition(p, i) ELSE -TaskPosition(p, i)

StopLossEnded(p, i) ==
    /\ psessions[p].pc = "gather"
    /\ i \in 1..Len(psessions[p].tasks)
    /\ psessions[p].tasks[i].pc = "expire"
    /\ psessions'[p].pc = "gather"
    /\ psessions'[p].tasks[i].pc = "done"

\* The strategy is not active at the time.
Expired(strategy, current) ==
    strategy.valid_until_utc # NoTime /\ strategy.valid_until_utc <= current

\* The step begins a pass of the session p.
PassBegun(p) == psessions[p].pc = "idle" /\ psessions'[p].pc = "gather"

\* C26: the task whose stop loss triggers places the closing market SELL
\* and then sets valid_until of its strategy to the current time, whatever
\* it was; a strategy that is expired stays expired, and a pass that begins
\* then does not load it, so that it is neither evaluated nor traded.
C26_StopLossExpires ==
    [][/\ \A p \in PSessions, i \in 1..MaxStrategies :
             /\ (Placed(p, i) /\ psessions[p].tasks[i].intent.type = "market")
                    => /\ IntentInserted(p, i)
                       /\ psessions'[p].tasks[i].pc = "expire"
             /\ StopLossEnded(p, i)
                    => /\ strategies'[psessions[p].strategies[i]].valid_until_utc = now
                       /\ \E o \in 1..Len(kalshi_orders) :
                             /\ kalshi_orders[o].action = "sell"
                             /\ kalshi_orders[o].type = "market"
                             /\ kalshi_orders[o].ticker = TaskStrategy(p, i).ticker
                             /\ kalshi_orders[o].side = TaskStrategy(p, i).side
       /\ \A id \in 1..Len(strategies) :
             Expired(strategies[id], now) => Expired(strategies'[id], now')
       /\ \A p \in PSessions :
             PassBegun(p) =>
                \A j \in 1..Len(psessions'[p].strategies) :
                   ~Expired(strategies[psessions'[p].strategies[j]], now)]_vars

\* A stop loss has sold the position and expired its strategy, and the
\* next pass of the account found no strategy to evaluate.
C26_Witness ==
    /\ \E id \in 1..Len(strategies) : strategies[id].valid_until_utc = now
    /\ \E o \in 1..Len(kalshi_orders) :
          kalshi_orders[o].action = "sell" /\ kalshi_orders[o].type = "market"
    /\ last.op \in Endpoints
    /\ last.total_strategies = 0

(* --------------------------- entry idempotency ------------------------ *)
\* C27: whatever passes have run, one after another or at the same time,
\* an account has at most one OPEN unexpired BUY order on a ticker and
\* side.
C27_OneOpenEntry ==
    \A a \in Accounts, ticker \in Tickers, side \in {"yes", "no"} :
        Cardinality({o \in 1..Len(kalshi_orders) :
                        /\ kalshi_orders[o].account_id = a
                        /\ kalshi_orders[o].ticker = ticker
                        /\ kalshi_orders[o].side = side
                        /\ kalshi_orders[o].action = "buy"
                        /\ kalshi_orders[o].status = "open"
                        /\ kalshi_orders[o].expiration_ts > now}) <= 1

(* --------------------------- strategy isolation ----------------------- *)
\* The step ends task i of the pass p with an error.
TaskFailed(p, i) ==
    /\ psessions[p].pc = "gather"
    /\ i \in 1..Len(psessions[p].tasks)
    /\ psessions[p].tasks[i].pc # "done"
    /\ psessions'[p].pc = "gather"
    /\ psessions'[p].tasks[i].pc = "done"
    /\ psessions'[p].tasks[i].result = "error"

\* The step returns the response of the pass p.
PassReturned(p) == psessions[p].pc = "gather" /\ psessions'[p].pc = "idle"

\* C28: the failure of one strategy of a pass leaves the tasks of the other
\* strategies, the orders and the strategies as they are; the pass returns
\* when every strategy has been evaluated, with exactly one result for each
\* strategy it loaded, in their order, an error only for a strategy that
\* failed, and with the orders committed.
C28_StrategyIsolation ==
    [][\A p \in PSessions :
          /\ \A i \in 1..MaxStrategies :
                TaskFailed(p, i) =>
                   /\ \A j \in 1..Len(psessions[p].tasks) :
                         j # i => psessions'[p].tasks[j] = psessions[p].tasks[j]
                   /\ kalshi_orders' = kalshi_orders
                   /\ strategies' = strategies
          /\ PassReturned(p) =>
                /\ last'.op = psessions[p].endpoint
                /\ last'.total_strategies = Len(psessions[p].strategies)
                /\ Len(last'.results) = Len(psessions[p].strategies)
                /\ \A j \in 1..Len(psessions[p].strategies) :
                      /\ last'.results[j].strategy_id = psessions[p].strategies[j]
                      /\ last'.results[j].action = psessions[p].tasks[j].result
                      /\ last'.results[j].action \in
                            {"buy", "sell_take_profit", "sell_stop_loss", "hold",
                             "skip", "error"}
                /\ kalshi_orders' = kalshi_orders]_vars

\* A pass over two strategies has returned an error for the first and a
\* BUY for the second, whose order is in the table.
C28_Witness ==
    /\ last.op \in Endpoints
    /\ Len(last.results) = 2
    /\ last.results[1].action = "error"
    /\ last.results[2].action = "buy"
    /\ \E o \in 1..Len(kalshi_orders) :
          /\ kalshi_orders[o].ticker = strategies[last.results[2].strategy_id].ticker
          /\ kalshi_orders[o].action = "buy"
          /\ kalshi_orders[o].status = "open"

(* --------------------------- the fill of a resting order -------------- *)
\* The step of the run p evaluates the order o of its list.
RunEvaluates(p, o) ==
    /\ procs[p].pc = "loop"
    /\ procs'[p].pc = "loop"
    /\ procs[p].idx <= Len(procs[p].open_orders)
    /\ procs[p].open_orders[procs[p].idx] = o
    /\ procs'[p].idx = procs[p].idx + 1

\* The balance and the position as the run p holds them: its own objects
\* once it has selected the rows, the rows before.
RunBalance(p, a) ==
    IF procs[p].account[a].loaded THEN procs[p].account[a].balance ELSE balance[a]

RunShares(p, k) ==
    IF procs[p].position[k].loaded THEN procs[p].position[k].shares
    ELSE positions[k].shares

RunCost(p, k) ==
    IF procs[p].position[k].loaded THEN procs[p].position[k].total_cost
    ELSE positions[k].total_cost

\* C29: a run of process_open_orders fills every order whose quote crosses,
\* whatever the balance and the position are; the fill of a BUY leaves the
\* balance and adds size shares and price x size of cost to the position,
\* the fill of a SELL leaves the shares and adds price x size to the
\* balance; each fill adds exactly one Transaction at the limit price, and
\* the commit of the run stores these amounts and sets the order to FILLED.
C29_RestingFillFrame ==
    [][\A p \in Procs :
          /\ \A o \in 1..Len(orders) :
                RunEvaluates(p, o) =>
                   LET order == orders[o]
                       a == order.account_id
                       k == <<order.account_id, order.token_id>>
                       amount == order.price * order.size
                       crosses == IF order.side = "BUY"
                                  THEN /\ procs[p].ask[order.token_id] # NoPrice
                                       /\ procs[p].ask[order.token_id] <= order.price
                                  ELSE /\ procs[p].bid[order.token_id] # NoPrice
                                       /\ procs[p].bid[order.token_id] >= order.price
                   IN
                   IF crosses
                   THEN /\ procs'[p].filled = Append(procs[p].filled, o)
                        /\ procs'[p].added = Append(procs[p].added,
                               [account_id |-> a, token_id |-> order.token_id,
                                side |-> order.side, execution_price |-> order.price,
                                size |-> order.size])
                        /\ procs'[p].position[k].shares =
                               IF order.side = "BUY" THEN RunShares(p, k) + order.size
                               ELSE RunShares(p, k)
                        /\ order.side = "BUY" =>
                               /\ procs'[p].account[a].loaded
                                      => procs'[p].account[a].balance = RunBalance(p, a)
                               /\ procs'[p].position[k].total_cost =
                                      RunCost(p, k) + amount
                        /\ order.side = "SELL" =>
                               procs'[p].account[a].balance = RunBalance(p, a) + amount
                   ELSE /\ procs'[p].filled = procs[p].filled
                        /\ procs'[p].added = procs[p].added
          /\ RunCommits(p) =>
                /\ \A a \in Accounts :
                      balance'[a] = RunBalance(p, a)
                /\ \A k \in PosKeys :
                      (procs[p].position[k].loaded /\ procs[p].position[k].exists) =>
                         /\ positions'[k].shares = procs[p].position[k].shares
                         /\ positions'[k].total_cost = procs[p].position[k].total_cost
                /\ transactions' = transactions \o procs[p].added
                /\ Len(procs[p].added) = Len(procs[p].filled)
                /\ \A o \in 1..Len(orders) :
                      IF \E i \in 1..Len(procs[p].filled) : procs[p].filled[i] = o
                      THEN orders'[o] = [orders[o] EXCEPT !.status = "FILLED"]
                      ELSE orders'[o] = orders[o]]_vars

\* A run has committed the fill of a resting SELL: the order is FILLED and
\* its Transaction at the limit price is the last of the log.
C29_Witness ==
    /\ last.op = "process" /\ last.status = "done"
    /\ \E o \in 1..Len(orders) :
          /\ orders[o].status = "FILLED"
          /\ orders[o].side = "SELL"
          /\ Len(transactions) > 0
          /\ transactions[Len(transactions)].side = "SELL"
          /\ transactions[Len(transactions)].execution_price = orders[o].price

(* --------------------------- transactions and fills ------------------- *)
\* The Transactions of the account in the log, and its FILLED orders in the
\* table.
TransactionsOf(log, a) ==
    Cardinality({i \in 1..Len(log) : log[i].account_id = a})

FilledOrdersOf(table, a) ==
    Cardinality({o \in 1..Len(table) :
                    table[o].account_id = a /\ table[o].status = "FILLED"})

\* The step is a place_limit_order of the account that fills at once.
ImmediateFill(a) ==
    /\ last'.op = "place" /\ last'.status = "filled" /\ last'.account_id = a
    /\ Len(transactions') = Len(transactions) + 1

\* C30: the Transactions of an account are as many as its immediate fills
\* and its FILLED orders together: every step adds as many Transactions of
\* the account as it adds FILLED orders of it, and one more when it is an
\* immediate fill.
C30_TransactionPerFill ==
    [][\A a \in Accounts :
          TransactionsOf(transactions', a) - TransactionsOf(transactions, a)
              = FilledOrdersOf(orders', a) - FilledOrdersOf(orders, a)
                + (IF ImmediateFill(a) THEN 1 ELSE 0)]_vars

(* ----------------------------- failing fills -------------------------- *)
\* The Polymarket order engine with runs in which a fill fails part-way,
\* over orders at the highest price and up to two OPEN orders beside the
\* purchase that made the position.
NextFaults ==
    \/ PlaceLimitOrderFrom({MaxPrice}, 1..MaxSize, {1}, MaxOrders + 2)
    \/ CancelOrder
    \/ ProcessOpenOrdersAt({"p1"}, {NoPrice, MaxPrice}, {1})
    \/ ProcessOpenOrdersFailing({"p1"})

SpecFaults == Init /\ [][NextFaults]_vars

\* The step ends a run of process_open_orders, by its commit or otherwise.
RunEnds(p) == procs[p].pc = "loop" /\ procs'[p].pc = "idle"

\* The orders the step sets FILLED.
SetsFilled == [o \in 1..Len(orders) |->
                  orders[o].status # "FILLED" /\ orders'[o].status = "FILLED"]

\* price * size of the account's SELL orders the step sets FILLED.
ProceedsOf(a) ==
    SumOver([o \in 1..Len(orders) |-> orders[o].price * orders[o].size],
            [o \in 1..Len(orders) |-> SetsFilled[o]
                 /\ orders[o].account_id = a /\ orders[o].side = "SELL"],
            Len(orders))

\* The shares of the position's BUY orders the step sets FILLED.
BoughtOf(k) ==
    SumOver([o \in 1..Len(orders) |-> orders[o].size],
            [o \in 1..Len(orders) |-> SetsFilled[o]
                 /\ orders[o].account_id = k[1] /\ orders[o].token_id = k[2]
                 /\ orders[o].side = "BUY"],
            Len(orders))

\* C31: a run of process_open_orders writes no part of a fill without the
\* rest of it: the step that ends a run changes each balance by the
\* proceeds of the SELL orders it sets FILLED and each position by the
\* shares of the BUY orders it sets FILLED, adds one Transaction per order
\* it sets FILLED, and changes no order otherwise; so after a fill that
\* failed part-way nothing of that order is written.
C31_FillAtomicity ==
    [][\A p \in Procs : RunEnds(p) =>
          /\ \A a \in Accounts : balance'[a] = balance[a] + ProceedsOf(a)
          /\ \A k \in PosKeys :
                 positions'[k].shares = positions[k].shares + BoughtOf(k)
          /\ Len(transactions') - Len(transactions)
                 = Cardinality({o \in 1..Len(orders) : SetsFilled[o]})
          /\ \A o \in 1..Len(orders) :
                 ~SetsFilled[o] => orders'[o] = orders[o]]_vars

\* A run in which one order was filled and the fill of a later one failed
\* after the Account object was credited, about to end.
C31_Witness ==
    \E p \in Procs, a \in Accounts :
       /\ procs[p].pc = "loop" /\ procs[p].failed
       /\ procs[p].idx > Len(procs[p].open_orders)
       /\ Len(procs[p].filled) > 0
       /\ procs[p].account[a].loaded
       /\ procs[p].account[a].balance
              > balance[a] + SumOver([i \in 1..Len(procs[p].filled) |->
                                        orders[procs[p].filled[i]].price
                                          * orders[procs[p].filled[i]].size],
                                    [i \in 1..Len(procs[p].filled) |->
                                        orders[procs[p].filled[i]].side = "SELL"],
                                    Len(procs[p].filled))

(* ------------------------------ two accounts -------------------------- *)
\* The Polymarket order engine for two accounts, over orders of one share
\* at the lowest price.
NextLocks ==
    \/ PlaceLimitOrderOf(Accounts, {1}, {1}, Prices, MaxOrders + 1)
    \/ CancelOrder
    \/ ProcessOpenOrders

SpecLocks == Init /\ [][NextLocks]_vars

\* The order the run is at in its loop is one of the account.
AtOrderOf(p, a) ==
    /\ procs[p].pc = "loop"
    /\ procs[p].idx <= Len(procs[p].open_orders)
    /\ orders[procs[p].open_orders[procs[p].idx]].account_id = a

\* C32: a run of process_open_orders holds no Account row lock of one
\* account while it is at an order of another account (so that a
\* place_limit_order or cancel_order of the first account does not wait
\* for the other account's work).
C32_LocksPerAccount ==
    \A p \in Procs : \A a \in Accounts : \A b \in Accounts \ {a} :
        AtOrderOf(p, b) => ~procs[p].account[a].loaded

(* -------------------------- missing Kalshi quotes --------------------- *)
\* The Kalshi order engine over limit BUY orders for one contract of the
\* yes side that do not expire, up to two of them, with market data that
\* may have no ask.
NextQuotes ==
    \/ CreateKalshiOrderOf({"buy"}, {"limit"}, Tickers, {"yes"}, {1}, {MaxNow + 1},
                           MaxKalshiOrders + 1)
    \/ ProcessKalshiOrdersBy({"k1"}, {1}, {NoPrice, 1}, {1})
    \/ ProcessKalshiOrdersFailing({"k1"})

SpecQuotes == Init /\ [][NextQuotes]_vars

\* The step ends the run of process_kalshi_orders of the session.
KalshiRunEnds(k) == ksessions[k].pc = "loop" /\ ksessions'[k].pc = "idle"

\* C33: a run of process_kalshi_orders goes through all the orders it
\* loaded, whatever happens at one of them: when the run ends, no loaded
\* order after the one it is at is left unprocessed.
C33_FailureIsolated ==
    [][\A k \in KSessions : KalshiRunEnds(k) =>
          ksessions[k].idx >= Len(ksessions[k].open_orders)]_vars

(* --------------------------- failing removals ------------------------- *)
\* Strategies that are removed while orders for one contract are placed
\* and filled, where the order of a removal may fail.
NextRemovalFaults ==
    \/ NextRemoval
    \/ RemoveStrategyFailing

SpecRemovalFaults == Init /\ [][NextRemovalFaults]_vars

\* The step is a remove_strategy request for a strategy that is active and
\* whose account holds a position on its ticker.
RemovesHeld(strategy_id) ==
    /\ last'.op = "remove_strategy" /\ last'.strategy_id = strategy_id
    /\ last' # last \/ strategies' # strategies
    /\ strategy_id \in 1..Len(strategies)
    /\ ~AlreadyExpired(strategies[strategy_id], now)
    /\ kalshi_positions[<<strategies[strategy_id].account_name,
                           strategies[strategy_id].ticker>>].position # 0

\* C34: remove_strategy on an active strategy whose account holds a
\* position either succeeds, and then the strategy is expired and one OPEN
\* market SELL for the whole position has been added, or fails, and then
\* the strategy is as it was.
C34_RemoveAllOrNothing ==
    [][\A strategy_id \in 1..MaxStrategies : RemovesHeld(strategy_id) =>
          LET strategy == strategies[strategy_id]
              held == kalshi_positions[<<strategy.account_name, strategy.ticker>>].position
          IN  IF last'.status = "done"
              THEN /\ strategies'[strategy_id].valid_until_utc = now
                   /\ Len(kalshi_orders') = Len(kalshi_orders) + 1
                   /\ LET order == kalshi_orders'[Len(kalshi_orders')] IN
                         /\ order.status = "open" /\ order.type = "market"
                         /\ order.action = "sell"
                         /\ order.count = (IF held > 0 THEN held ELSE -held)
              ELSE strategies' = strategies]_vars

(* ------------------------------ entry limits -------------------------- *)
\* C35: a BUY order a pass places is within the limits of its strategy: its
\* count is at most entry_max_position_shares, and its count times the ask
\* of the pass is at most entry_max_capital_risk.
C35_EntryWithinLimits ==
    [][\A p \in PSessions, i \in 1..MaxStrategies :
          (Placed(p, i) /\ Len(kalshi_orders') = Len(kalshi_orders) + 1) =>
              LET order == kalshi_orders'[Len(kalshi_orders')] IN
              order.action = "buy" =>
                 /\ order.count <= TaskStrategy(p, i).entry_max_position_shares
                 /\ order.count * TaskAsk(p, i)
                        <= TaskStrategy(p, i).entry_max_capital_risk]_vars

\* A pass has placed a BUY order that the capital at risk kept below the
\* share limit of its strategy.
C35_Witness ==
    \E p \in PSessions : \E i \in 1..Len(psessions[p].tasks) :
        /\ psessions[p].tasks[i].pc = "done"
        /\ psessions[p].tasks[i].result = "buy"
        /\ Len(kalshi_orders) > 0
        /\ LET order == kalshi_orders[Len(kalshi_orders)] IN
              /\ order.action = "buy" /\ order.status = "open"
              /\ order.ticker = TaskStrategy(p, i).ticker
              /\ order.count < TaskStrategy(p, i).entry_max_position_shares
              /\ (order.count + 1) * TaskAsk(p, i)
                     > TaskStrategy(p, i).entry_max_capital_risk

(* ------------------------- concurrent Kalshi runs --------------------- *)
\* Two runs of process_kalshi_orders at a time (a per-account request and
\* the batch, each with its own session), over orders for one contract of
\* the yes side of one ticker that do not expire.
NextKalshiRuns ==
    \/ CreateKalshiOrderFrom({"K1"}, {"yes"}, {1}, {MaxNow + 1})
    \/ ProcessKalshiOrdersBy(KSessions, {1}, Prices, {1})

SpecKalshiRuns == Init /\ [][NextKalshiRuns]_vars

\* The contracts the account's filled orders on the ticker add up to: yes
\* contracts count up, no contracts down, a sale the other way.
FilledNet(a, t) ==
    SumOver([o \in 1..Len(kalshi_orders) |->
                IF (kalshi_orders[o].side = "yes") = (kalshi_orders[o].action = "buy")
                THEN kalshi_orders[o].count ELSE -kalshi_orders[o].count],
            [o \in 1..Len(kalshi_orders) |->
                /\ kalshi_orders[o].account_id = a
                /\ kalshi_orders[o].ticker = t
                /\ kalshi_orders[o].status = "filled"],
            Len(kalshi_orders))

\* C36: each Kalshi order is filled at most once, so the position of an
\* account on a ticker is what its filled orders add up to, each counted
\* once.
C36_FilledOnce ==
    \A a \in Accounts, t \in Tickers :
        kalshi_positions[<<a, t>>].position = FilledNet(a, t)

(* ---------------------- concurrent create_strategy -------------------- *)
\* Two create_strategy requests at a time for one ticker, with revisions
\* and removals, as time passes.
NextCreates ==
    \/ CreateStrategyBy(CSessions, {StrategyOn("K1", "yes", valid_until_utc) :
                                        valid_until_utc \in {NoTime, 1}})
    \/ UpdateStrategyFrom({NothingSet(strategy_id) :
                              strategy_id \in 1..MaxStrategies})
    \/ RemoveStrategy
    \/ Tick

SpecCreates == Init /\ [][NextCreates]_vars

\* C37: an account has at most one active strategy per ticker.
C37_OneActivePerTicker ==
    \A a \in Accounts, t \in Tickers :
        Cardinality(ActiveStrategyIds(a, t)) <= 1

(* ------------------------------ lock waits ---------------------------- *)
\* Two runs of process_open_orders at a time over the resting orders of
\* two accounts, one share each at the lowest price and crossed by the
\* quotes of the runs, with cancels.
NextWaits ==
    \/ PlaceLimitOrderOf(Accounts, {1}, {1}, {MaxPrice}, MaxOrders + 1)
    \/ CancelOrder
    \/ ProcessOpenOrdersAt(Procs, {1}, {1})

SpecWaits == Init /\ [][NextWaits]_vars

\* The run p is at an order it fills, and its SELECT ... FOR UPDATE of the
\* order's Account row waits for the run q, which holds the lock of that
\* row.
WaitsFor(p, q) ==
    /\ procs[p].pc = "loop"
    /\ procs[p].idx <= Len(procs[p].open_orders)
    /\ LET order == orders[procs[p].open_orders[procs[p].idx]] IN
          /\ ShouldFill(order, procs[p].bid, procs[p].ask)
          /\ procs[q].account[order.account_id].loaded

\* C38: the operations do not deadlock on row locks: no two runs of
\* process_open_orders wait for a row lock of each other.
C38_NoDeadlock ==
    \A p \in Procs : \A q \in Procs \ {p} : ~(WaitsFor(p, q) /\ WaitsFor(q, p))

(* --------------------------- permanent expiry ------------------------- *)
\* Every operation that writes a Strategy row: strategies are created,
\* revised and removed while passes enter and stop losses at a quote of one
\* cent, as time passes.
NextExpiry ==
    \/ CreateStrategyFrom({StrategyOn("K1", "yes", valid_until_utc) :
                              valid_until_utc \in {NoTime, MaxNow + 1}})
    \/ UpdateStrategyFrom({NothingSet(strategy_id) :
                              strategy_id \in 1..MaxStrategies})
    \/ RemoveStrategy
    \/ ProcessStrategiesFrom({"s1"}, {"process_strategies"}, {1}, {1}, {1},
                             MaxKalshiOrders + 1)
    \/ ProcessKalshiOrdersAt({1}, {1}, {1})
    \/ Tick

SpecExpiry == Init /\ [][NextExpiry]_vars

\* C39: expiry is permanent, and the rows only ever expire: every step
\* keeps the existing Strategy rows, changes a row at most by setting its
\* valid_until_utc to the current time, and leaves an inactive strategy
\* inactive.
C39_ExpiryPermanent ==
    [][/\ Len(strategies') >= Len(strategies)
       /\ \A i \in 1..Len(strategies) :
             /\ \/ strategies'[i] = strategies[i]
                \/ strategies'[i] = [strategies[i] EXCEPT !.valid_until_utc = now]
             /\ ~Active(strategies[i], now) => ~Active(strategies'[i], now')]_vars

\* A strategy that had an expiration has been expired before it, by a
\* revision, a removal or a stop loss, and time has passed since.
C39_Witness ==
    \E i \in 1..Len(strategies) :
        /\ strategies[i].valid_until_utc # NoTime
        /\ strategies[i].valid_until_utc < now
        /\ last.op \in {"update_strategy", "remove_strategy", "process_strategy"}
        /\ last.strategy_id = i
        /\ last.status \in {"done", "sell_stop_loss"}

(* ------------------------------ any size ------------------------------ *)
\* The Polymarket order engine for requests of any size: size is an
\* integer the request model does not constrain.
NextSizes ==
    \/ PlaceLimitOrderFrom(Prices, {-1, 1}, Prices, MaxOrders)
    \/ CancelOrder
    \/ ProcessOpenOrders

SpecSizes == Init /\ [][NextSizes]_vars

\* C40: the shares of a position are never negative.
C40_SharesNonNegative ==
    \A k \in PosKeys : positions[k].shares >= 0

====
